---- MODULE Spec2Model ----
(***************************************************************************)
(* A model of cli-ai (github.com/cli-ai-org/cli): the PATH scanner, the    *)
(* package detector, the package linker, the metadata collector and the    *)
(* audit / export commands built from them.                                 *)
(*                                                                          *)
(* Go strings are TLA+ strings; the string helpers below compute what the  *)
(* Go standard library functions the program calls compute.                *)
(***************************************************************************)
EXTENDS Integers, Sequences, FiniteSets, TLC

VARIABLES
    paths,      \* Scanner.paths: the search path, in order
    fs,         \* the filesystem: directory -> listing, or Unreadable
    backends,   \* what the package managers' list commands gave when last run
    probes,     \* what the executable last probed did for each flag
    cmd,        \* the running command and its flags
    phase,      \* position of the running command
    names,      \* result of Scanner.ScanAll
    scanned,    \* the slice returned by Scanner.ScanAllDetailed
    tools,      \* the command's `tools` variable
    found,      \* result of Scanner.FindTool
    info,       \* result of Collector.CollectToolInfo
    pkgs,       \* result of Detector.DetectAll
    detectErr,  \* the error DetectAll returned
    queried,    \* the backends DetectAll has invoked, in order
    audit,      \* the AuditResult of performAudit
    catalog     \* the ToolCatalog of the export command

vars == <<paths, fs, backends, probes, cmd, phase, names, scanned, tools, found,
          info, pkgs, detectErr, queried, audit, catalog>>

(***************************************************************************)
(* Go standard library: strings, path/filepath                             *)
(***************************************************************************)

\* The bytes the model's strings use, in byte order.
AsciiOrder == "\n (),-./0123456789:@ABCDEFGHIJKLMNOPQRSTUVWXYZ_abcdefghijklmnopqrstuvwxyz"

UpperChars == "ABCDEFGHIJKLMNOPQRSTUVWXYZ"

LowerChars == "abcdefghijklmnopqrstuvwxyz"

CharAt(s, i) == SubSeq(s, i, i)

Ord(c) == CHOOSE i \in 1..Len(AsciiOrder) : CharAt(AsciiOrder, i) = c

\* s < t, as Go compares strings (byte-wise lexicographic).
RECURSIVE StrLess(_, _)
StrLess(s, t) ==
    IF t = "" THEN FALSE
    ELSE IF s = "" THEN TRUE
    ELSE IF Head(s) = Head(t) THEN StrLess(Tail(s), Tail(t))
    ELSE Ord(Head(s)) < Ord(Head(t))

HasPrefix(s, p) == Len(p) <= Len(s) /\ SubSeq(s, 1, Len(p)) = p

HasSuffix(s, p) == Len(p) <= Len(s) /\ SubSeq(s, Len(s) - Len(p) + 1, Len(s)) = p

\* strings.Index, 1-based; 0 when sub does not occur.
Index(s, sub) ==
    LET hits == {i \in 1..(Len(s) - Len(sub) + 1) : SubSeq(s, i, i + Len(sub) - 1) = sub}
    IN IF hits = {} THEN 0 ELSE CHOOSE i \in hits : \A j \in hits : i <= j

Contains(s, sub) == Index(s, sub) # 0

TrimPrefix(s, p) == IF HasPrefix(s, p) THEN SubSeq(s, Len(p) + 1, Len(s)) ELSE s

TrimSuffix(s, p) == IF HasSuffix(s, p) THEN SubSeq(s, 1, Len(s) - Len(p)) ELSE s

LowerChar(c) ==
    IF \E i \in 1..Len(UpperChars) : CharAt(UpperChars, i) = c
    THEN CharAt(LowerChars, CHOOSE i \in 1..Len(UpperChars) : CharAt(UpperChars, i) = c)
    ELSE c

RECURSIVE ToLower(_)
ToLower(s) == IF s = "" THEN "" ELSE LowerChar(Head(s)) \o ToLower(Tail(s))

\* strings.Split for a non-empty separator.
RECURSIVE Split(_, _)
Split(s, sep) ==
    LET i == Index(s, sep)
    IN IF i = 0 THEN <<s>>
       ELSE <<SubSeq(s, 1, i - 1)>> \o Split(SubSeq(s, i + Len(sep), Len(s)), sep)

RECURSIVE TrimLeftChars(_, _)
TrimLeftChars(s, cutset) ==
    IF s # "" /\ Contains(cutset, Head(s)) THEN TrimLeftChars(Tail(s), cutset) ELSE s

RECURSIVE TrimRightChars(_, _)
TrimRightChars(s, cutset) ==
    IF s # "" /\ Contains(cutset, CharAt(s, Len(s)))
    THEN TrimRightChars(SubSeq(s, 1, Len(s) - 1), cutset)
    ELSE s

\* strings.Trim(s, cutset)
Trim(s, cutset) == TrimRightChars(TrimLeftChars(s, cutset), cutset)

WhiteSpace == " \n\t\r"

TrimSpace(s) == Trim(s, WhiteSpace)

\* strings.Fields: the maximal runs of non-space bytes.
RECURSIVE Fields(_)
Fields(s) ==
    LET t == TrimLeftChars(s, WhiteSpace)
        ends == {i \in 1..Len(t) : Contains(WhiteSpace, CharAt(t, i))}
        e == IF ends = {} THEN Len(t) + 1 ELSE CHOOSE i \in ends : \A j \in ends : i <= j
    IN IF t = "" THEN <<>>
       ELSE <<SubSeq(t, 1, e - 1)>> \o Fields(SubSeq(t, e, Len(t)))

RECURSIVE JoinStrings(_, _)
JoinStrings(parts, sep) ==
    IF parts = <<>> THEN ""
    ELSE IF Len(parts) = 1 THEN parts[1]
    ELSE parts[1] \o sep \o JoinStrings(Tail(parts), sep)

\* The component stack of filepath.Clean: "" and "." are dropped, ".." pops.
RECURSIVE CleanParts(_, _, _)
CleanParts(parts, rooted, out) ==
    IF parts = <<>> THEN out
    ELSE LET p == Head(parts)
             nxt == IF p = "" \/ p = "." THEN out
                    ELSE IF p = ".."
                         THEN IF out # <<>> /\ out[Len(out)] # ".."
                              THEN SubSeq(out, 1, Len(out) - 1)
                              ELSE IF rooted THEN out ELSE Append(out, p)
                    ELSE Append(out, p)
         IN CleanParts(Tail(parts), rooted, nxt)

\* filepath.Clean on a Unix path.
Clean(path) ==
    LET rooted == HasPrefix(path, "/")
        body == JoinStrings(CleanParts(Split(path, "/"), rooted, <<>>), "/")
    IN IF rooted THEN "/" \o body
       ELSE IF body = "" THEN "." ELSE body

\* filepath.Join(dir, name): empty elements are ignored, the result is cleaned.
Join(dir, name) ==
    IF dir = "" /\ name = "" THEN ""
    ELSE IF dir = "" THEN Clean(name)
    ELSE IF name = "" THEN Clean(dir)
    ELSE Clean(dir \o "/" \o name)

\* filepath.Base
Base(path) ==
    LET p == TrimRightChars(path, "/")
        parts == Split(p, "/")
    IN IF path = "" THEN "."
       ELSE IF p = "" THEN "/"
       ELSE parts[Len(parts)]

RECURSIVE BitAnd(_, _)
BitAnd(a, b) ==
    IF a = 0 \/ b = 0 THEN 0
    ELSE (a % 2) * (b % 2) + 2 * BitAnd(a \div 2, b \div 2)

\* os.ModeSymlink. Modes are kept without os.ModeDir (bit 31), which the
\* program reads only through DirEntry.IsDir.
ModeSymlink == 2 ^ 27

(***************************************************************************)
(* models.Tool                                                             *)
(***************************************************************************)

\* The zero value of models.Tool.
ZeroTool ==
    [Name |-> "", Path |-> "", Description |-> "", Version |-> "", HelpText |-> "",
     IsSymlink |-> FALSE, SymlinkTo |-> "", Size |-> 0, Aliases |-> <<>>,
     PackageName |-> "", PackageManager |-> "", PackageVersion |-> ""]

(***************************************************************************)
(* The filesystem the scanner reads                                        *)
(*                                                                         *)
(* A directory entry carries what os.ReadDir, DirEntry.Info (an lstat),    *)
(* os.Stat (follows links) and os.Readlink report for it.                  *)
(***************************************************************************)

\* A regular file with permission bits perm.
RegularFile(name, perm, size) ==
    [Name |-> name, IsDir |-> FALSE, InfoErr |-> FALSE, Mode |-> perm, Size |-> size,
     Target |-> "", ReadlinkErr |-> TRUE,
     StatErr |-> FALSE, StatMode |-> perm, StatSize |-> size]

\* A subdirectory.
SubDir(name) ==
    [Name |-> name, IsDir |-> TRUE, InfoErr |-> FALSE, Mode |-> 493, Size |-> 96,
     Target |-> "", ReadlinkErr |-> TRUE,
     StatErr |-> FALSE, StatMode |-> 493, StatSize |-> 96]

\* A symbolic link to target; statMode < 0 is a dangling link.
SymLink(name, target, statMode, statSize) ==
    [Name |-> name, IsDir |-> FALSE, InfoErr |-> FALSE, Mode |-> ModeSymlink + 511,
     Size |-> Len(target), Target |-> target, ReadlinkErr |-> FALSE,
     StatErr |-> statMode < 0, StatMode |-> statMode, StatSize |-> statSize]

\* An entry removed between the directory read and the lstat of it.
Vanished(name) ==
    [Name |-> name, IsDir |-> FALSE, InfoErr |-> TRUE, Mode |-> 0, Size |-> 0,
     Target |-> "", ReadlinkErr |-> TRUE,
     StatErr |-> TRUE, StatMode |-> 0, StatSize |-> 0]

\* A link replaced by a regular file between the lstat and the readlink.
RacedLink(name) ==
    [Name |-> name, IsDir |-> FALSE, InfoErr |-> FALSE, Mode |-> ModeSymlink + 511,
     Size |-> 9, Target |-> "", ReadlinkErr |-> TRUE,
     StatErr |-> FALSE, StatMode |-> 493, StatSize |-> 30]

\* A directory os.ReadDir fails on, and one it lists.
Unreadable == [readable |-> FALSE, entries |-> {}]

Directory(entries) == [readable |-> TRUE, entries |-> entries]

\* os.ReadDir(dir): the entries sorted by filename, or an error.
RECURSIVE SortByName(_)
SortByName(entries) ==
    IF entries = {} THEN <<>>
    ELSE LET first == CHOOSE e \in entries :
                          \A o \in entries : o = e \/ StrLess(e.Name, o.Name)
         IN <<first>> \o SortByName(entries \ {first})

ReadDirErr(dir) ==
    \/ dir = ""
    \/ Clean(dir) \notin DOMAIN fs
    \/ ~fs[Clean(dir)].readable

ReadDir(dir) == IF ReadDirErr(dir) THEN <<>> ELSE SortByName(fs[Clean(dir)].entries)

(***************************************************************************)
(* internal/scanner                                                        *)
(***************************************************************************)

isExecutable(mode) == BitAnd(mode, 73) # 0

excludePatterns ==
    <<"test", "demo", "bench", "example", "sample",
      "_test", "_demo", "_bench", "_example">>

allowed == <<"transmission-daemon", "jupyter-server">>

daemonExclusions ==
    <<"bluetoothd", "coreaudiod", "cfprefsd", "distnoted",
      "launchd", "notifyd", "securityd", "syslogd", "configd",
      "kerneleventd", "powerd", "cupsd", "httpd", "sshd",
      "snmpd", "named", "ntpd", "syslogd",
      "btleserver", "btleserveragent">>

appleInternalPrefixes ==
    <<"appleh", "assetcache", "bluetool", "bootcache",
      "createdom", "domcount", "domprint", "derez",
      "devtools", "directory", "enumval", "getfileinfo",
      "ioaccel", "iomfb", "iosdebug", "kernel",
      "pparse", "psviwriter", "password", "protocol",
      "redirect", "resmerger", "rez", "sax", "scmprint",
      "senumval", "safeeject", "setfile", "splitforks",
      "stdin", "svtav1", "wireless", "xinclude">>

systemInternals == <<"mDNSResponder", "mDNSResponderHelper">>

shouldIncludeTool(name) ==
    LET lower == ToLower(name)
    IN IF name = "__pycache__" \/ name = "." \/ name = ".." THEN FALSE
       ELSE IF HasSuffix(name, ".d") THEN FALSE
       ELSE IF \E i \in DOMAIN excludePatterns : Contains(lower, excludePatterns[i]) THEN FALSE
       ELSE IF /\ \/ HasSuffix(lower, "server") \/ HasSuffix(lower, "agent")
                  \/ HasSuffix(lower, "daemon") \/ HasSuffix(lower, "serverd")
               /\ ~ \E i \in DOMAIN allowed : lower = allowed[i]
            THEN FALSE
       ELSE IF \E i \in DOMAIN daemonExclusions : lower = daemonExclusions[i] THEN FALSE
       ELSE IF \E i \in DOMAIN appleInternalPrefixes : HasPrefix(lower, appleInternalPrefixes[i])
            THEN FALSE
       ELSE IF \E i \in DOMAIN systemInternals : name = systemInternals[i] THEN FALSE
       ELSE TRUE

\* The scan loops' test without the inclusion filter.
IsCandidateUnfiltered(e) ==
    /\ ~e.IsDir
    /\ ~e.InfoErr
    /\ isExecutable(e.Mode)

\* An entry the scan loops get past: not a directory, included, lstat-able, executable.
IsCandidate(e) ==
    /\ ~e.IsDir
    /\ shouldIncludeTool(e.Name)
    /\ ~e.InfoErr
    /\ isExecutable(e.Mode)

\* ScanAll, one entry of one directory; st = [tools, seen].
ScanAllStep(e, st) ==
    IF IsCandidate(e) /\ e.Name \notin st.seen
    THEN [tools |-> Append(st.tools, e.Name), seen |-> st.seen \cup {e.Name}]
    ELSE st

RECURSIVE ScanAllEntries(_, _)
ScanAllEntries(entries, st) ==
    IF entries = <<>> THEN st
    ELSE ScanAllEntries(Tail(entries), ScanAllStep(Head(entries), st))

RECURSIVE ScanAllDirs(_, _)
ScanAllDirs(dirs, st) ==
    IF dirs = <<>> THEN st
    ELSE ScanAllDirs(Tail(dirs),
                     IF ReadDirErr(Head(dirs)) THEN st
                     ELSE ScanAllEntries(ReadDir(Head(dirs)), st))

ScanAll == ScanAllDirs(paths, [tools |-> <<>>, seen |-> {}]).tools

\* DetailedTool with the symlink flag left unset.
DetailedToolFlagLost(dir, e) ==
    [ZeroTool EXCEPT !.Name = e.Name, !.Path = Join(dir, e.Name), !.Size = e.Size,
                     !.SymlinkTo = IF ~e.ReadlinkErr THEN e.Target ELSE ""]

\* The models.Tool ScanAllDetailed builds for an entry of dir.
DetailedTool(dir, e) ==
    LET fullPath == Join(dir, e.Name)
        isLink == BitAnd(e.Mode, ModeSymlink) # 0
    IN [ZeroTool EXCEPT !.Name = e.Name, !.Path = fullPath, !.Size = e.Size,
                        !.IsSymlink = isLink,
                        !.SymlinkTo = IF isLink /\ ~e.ReadlinkErr THEN e.Target ELSE ""]

\* ScanDetailedStep without the check of `seen`.
ScanDetailedStepUnseen(dir, e, st) ==
    IF IsCandidate(e)
    THEN [tools |-> Append(st.tools, DetailedTool(dir, e)), seen |-> st.seen \cup {e.Name}]
    ELSE st

\* ScanDetailedStep where a later entry of a seen name replaces the earlier one.
ScanDetailedStepLastWins(dir, e, st) ==
    IF ~IsCandidate(e) THEN st
    ELSE IF e.Name \in st.seen
    THEN [st EXCEPT !.tools = [i \in DOMAIN st.tools |->
                                  IF st.tools[i].Name = e.Name
                                  THEN DetailedTool(dir, e) ELSE st.tools[i]]]
    ELSE [tools |-> Append(st.tools, DetailedTool(dir, e)), seen |-> st.seen \cup {e.Name}]

\* ScanAllDetailed, one entry of one directory; st = [tools, seen].
ScanDetailedStep(dir, e, st) ==
    IF IsCandidate(e) /\ e.Name \notin st.seen
    THEN [tools |-> Append(st.tools, DetailedTool(dir, e)), seen |-> st.seen \cup {e.Name}]
    ELSE st

RECURSIVE ScanDetailedEntries(_, _, _)
ScanDetailedEntries(dir, entries, st) ==
    IF entries = <<>> THEN st
    ELSE ScanDetailedEntries(dir, Tail(entries), ScanDetailedStep(dir, Head(entries), st))

\* ScanAllDetailed with a `seen` map of its own for every directory.
RECURSIVE ScanDetailedDirsSeenPerDirectory(_, _)
ScanDetailedDirsSeenPerDirectory(dirs, st) ==
    IF dirs = <<>> THEN st
    ELSE LET rest == ScanDetailedDirsSeenPerDirectory(Tail(dirs), [st EXCEPT !.tools = <<>>])
             here == IF ReadDirErr(Head(dirs)) THEN st
                     ELSE ScanDetailedEntries(Head(dirs), ReadDir(Head(dirs)),
                                              [st EXCEPT !.seen = {}])
         IN [tools |-> here.tools \o rest.tools, seen |-> here.seen \cup rest.seen]

RECURSIVE ScanDetailedDirs(_, _)
ScanDetailedDirs(dirs, st) ==
    IF dirs = <<>> THEN st
    ELSE ScanDetailedDirs(Tail(dirs),
                          IF ReadDirErr(Head(dirs)) THEN st
                          ELSE ScanDetailedEntries(Head(dirs), ReadDir(Head(dirs)), st))

ScanAllDetailed == ScanDetailedDirs(paths, [tools |-> <<>>, seen |-> {}]).tools

\* os.Stat / os.Lstat of dir/name: the entry, or none.
Lookup(dir, name) ==
    IF ReadDirErr(dir) THEN {}
    ELSE {e \in fs[Clean(dir)].entries : e.Name = name /\ ~e.InfoErr}

NotExist == [err |-> "ErrNotExist"]

\* The models.Tool FindTool builds for dir/name.
FoundTool(dir, name, e) ==
    LET fullPath == Join(dir, name)
        isLink == BitAnd(e.Mode, ModeSymlink) # 0
    IN [ZeroTool EXCEPT !.Name = name, !.Path = fullPath, !.Size = e.StatSize,
                        !.IsSymlink = isLink,
                        !.SymlinkTo = IF isLink /\ ~e.ReadlinkErr THEN e.Target ELSE ""]

RECURSIVE FindToolIn(_, _)
FindToolIn(dirs, name) ==
    IF dirs = <<>> THEN NotExist
    ELSE LET hit == {e \in Lookup(Head(dirs), name) : ~e.StatErr /\ isExecutable(e.StatMode)}
         IN IF hit # {} THEN [err |-> "", tool |-> FoundTool(Head(dirs), name, CHOOSE e \in hit : TRUE)]
            ELSE FindToolIn(Tail(dirs), name)

FindTool(name) == FindToolIn(paths, name)

(***************************************************************************)
(* internal/packages: the linker                                           *)
(***************************************************************************)

NPM == "npm"

Pip == "pip"

Brew == "brew"

Cargo == "cargo"

Go == "go"

Gem == "gem"

\* A packages.Package as the detectors build it.
Package(name, version, manager, global) ==
    [Name |-> name, Version |-> version, Manager |-> manager,
     Binaries |-> <<>>, Location |-> "", Global |-> global]

\* NewLinker keeping the first package of a name.
NewLinkerFirstWins(packages) ==
    [n \in {packages[i].Name : i \in DOMAIN packages} |->
        packages[CHOOSE i \in DOMAIN packages :
                    /\ packages[i].Name = n
                    /\ \A j \in DOMAIN packages : packages[j].Name = n => i <= j]]

\* NewLinker whose loop stops after the first package.
NewLinkerFirstOnly(packages) ==
    [n \in {packages[i].Name : i \in DOMAIN packages \cap {1}} |-> packages[1]]

\* NewLinker: the map from name to package; a later package of a name replaces
\* an earlier one.
NewLinker(packages) ==
    [n \in {packages[i].Name : i \in DOMAIN packages} |->
        packages[CHOOSE i \in DOMAIN packages :
                    /\ packages[i].Name = n
                    /\ \A j \in DOMAIN packages : packages[j].Name = n => j <= i]]

\* The assignments of a hit without the one of the version.
SetPackageNameAndManager(tool, pkg) ==
    [tool EXCEPT !.PackageName = pkg.Name, !.PackageManager = pkg.Manager]

\* The three assignments every strategy makes on a hit.
SetPackage(tool, pkg) ==
    [tool EXCEPT !.PackageName = pkg.Name,
                 !.PackageManager = pkg.Manager,
                 !.PackageVersion = pkg.Version]

\* The node_modules signature taking one component, scoped or not.
NodeModulesNameUnscoped(path) ==
    Split(Trim(Split(path, "node_modules")[2], "/"), "/")[1]

\* checkPath, the node_modules signature: the package name it derives.
NodeModulesName(path) ==
    LET parts == Split(path, "node_modules")
        remaining == Trim(parts[2], "/")
        pkgParts == Split(remaining, "/")
    IN IF HasPrefix(pkgParts[1], "@") /\ Len(pkgParts) > 1
       THEN pkgParts[1] \o "/" \o pkgParts[2]
       ELSE pkgParts[1]

\* checkPath, the Cellar signature.
CellarName(path) == Split(Split(path, "Cellar/")[2], "/")[1]

\* checkPath, the opt signature.
OptName(path) == Split(Split(path, "/opt/")[2], "/")[1]

\* checkPath whose .cargo/bin signature takes a package of any manager.
checkPathAnyManager(l, tool, path) ==
    IF Contains(path, "node_modules") /\ NodeModulesName(path) \in DOMAIN l
    THEN [ok |-> TRUE, tool |-> SetPackage(tool, l[NodeModulesName(path)])]
    ELSE IF /\ \/ Contains(path, "/opt/homebrew/")
               \/ Contains(path, "/usr/local/Cellar/")
               \/ Contains(path, "Cellar/")
            /\ Contains(path, "Cellar/")
            /\ CellarName(path) \in DOMAIN l
    THEN [ok |-> TRUE, tool |-> SetPackage(tool, l[CellarName(path)])]
    ELSE IF /\ \/ Contains(path, "/opt/homebrew/")
               \/ Contains(path, "/usr/local/Cellar/")
               \/ Contains(path, "Cellar/")
            /\ Contains(path, "/opt/")
            /\ OptName(path) \in DOMAIN l
    THEN [ok |-> TRUE, tool |-> SetPackage(tool, l[OptName(path)])]
    ELSE IF Contains(path, "site-packages") \/ Contains(path, ".pyenv")
    THEN [ok |-> FALSE, tool |-> tool]
    ELSE IF Contains(path, ".cargo/bin") /\ Base(path) \in DOMAIN l
    THEN [ok |-> TRUE, tool |-> SetPackage(tool, l[Base(path)])]
    ELSE [ok |-> FALSE, tool |-> tool]

\* checkPath: [ok, tool].
checkPath(l, tool, path) ==
    IF Contains(path, "node_modules") /\ NodeModulesName(path) \in DOMAIN l
    THEN [ok |-> TRUE, tool |-> SetPackage(tool, l[NodeModulesName(path)])]
    ELSE IF /\ \/ Contains(path, "/opt/homebrew/")
               \/ Contains(path, "/usr/local/Cellar/")
               \/ Contains(path, "Cellar/")
            /\ Contains(path, "Cellar/")
            /\ CellarName(path) \in DOMAIN l
    THEN [ok |-> TRUE, tool |-> SetPackage(tool, l[CellarName(path)])]
    ELSE IF /\ \/ Contains(path, "/opt/homebrew/")
               \/ Contains(path, "/usr/local/Cellar/")
               \/ Contains(path, "Cellar/")
            /\ Contains(path, "/opt/")
            /\ OptName(path) \in DOMAIN l
    THEN [ok |-> TRUE, tool |-> SetPackage(tool, l[OptName(path)])]
    ELSE IF Contains(path, "site-packages") \/ Contains(path, ".pyenv")
    THEN [ok |-> FALSE, tool |-> tool]
    ELSE IF /\ Contains(path, ".cargo/bin")
            /\ Base(path) \in DOMAIN l
            /\ l[Base(path)].Manager = Cargo
    THEN [ok |-> TRUE, tool |-> SetPackage(tool, l[Base(path)])]
    ELSE [ok |-> FALSE, tool |-> tool]

\* detectFromPath: the tool's path, then its symlink target.
RECURSIVE CheckPaths(_, _, _)
CheckPaths(l, tool, ps) ==
    IF ps = <<>> THEN tool
    ELSE LET r == checkPath(l, tool, Head(ps))
         IN IF r.ok THEN r.tool ELSE CheckPaths(l, r.tool, Tail(ps))

\* detectFromPath examining the symlink target ahead of the tool's own path.
detectFromPathTargetFirst(l, tool) ==
    CheckPaths(l, tool,
               IF tool.IsSymlink /\ tool.SymlinkTo # ""
               THEN <<tool.SymlinkTo, tool.Path>>
               ELSE <<tool.Path>>)

detectFromPath(l, tool) ==
    CheckPaths(l, tool,
               IF tool.IsSymlink /\ tool.SymlinkTo # ""
               THEN <<tool.Path, tool.SymlinkTo>>
               ELSE <<tool.Path>>)

\* Patterns with the bare "cli" suffix tried first.
PatternsCliFirst(name) ==
    <<TrimSuffix(name, "cli"), TrimPrefix(name, "cli-"), TrimSuffix(name, "-cli")>>

\* detectFromPatterns: the stripped forms, in the order they are tried.
Patterns(name) ==
    <<TrimSuffix(name, "-cli"), TrimPrefix(name, "cli-"), TrimSuffix(name, "cli")>>

detectFromPatterns(l, tool) ==
    LET name == tool.Name
        pats == Patterns(name)
        hits == {i \in DOMAIN pats : pats[i] # name /\ pats[i] \in DOMAIN l}
    IN IF hits # {}
       THEN SetPackage(tool, l[pats[CHOOSE i \in hits : \A j \in hits : i <= j]])
       ELSE IF HasPrefix(name, "@") /\ Len(Split(name, "/")) = 2 /\ name \in DOMAIN l
       THEN SetPackage(tool, l[name])
       ELSE tool

\* linkTool with the path strategy ahead of the exact name.
linkToolPathFirst(l, tool) ==
    LET t == detectFromPath(l, tool)
    IN IF t.PackageName # "" THEN t
       ELSE IF tool.Name \in DOMAIN l THEN SetPackage(tool, l[tool.Name])
       ELSE detectFromPatterns(l, t)

\* linkTool: exact name, then the path, then the patterns if still unlinked.
linkTool(l, tool) ==
    IF tool.Name \in DOMAIN l
    THEN SetPackage(tool, l[tool.Name])
    ELSE LET t == detectFromPath(l, tool)
         IN IF t.PackageName = "" THEN detectFromPatterns(l, t) ELSE t

\* LinkTools linking the elements of the argument itself, without the copy.
LinkToolsInPlace(l, ts) ==
    [arg |-> [i \in DOMAIN ts |-> linkTool(l, ts[i])],
     enriched |-> [i \in DOMAIN ts |-> linkTool(l, ts[i])]]

\* LinkTools: `enriched` is a copy of the argument, linked element by element;
\* [arg, enriched] are the two slices when it returns.
LinkTools(l, ts) ==
    [arg |-> ts, enriched |-> [i \in DOMAIN ts |-> linkTool(l, ts[i])]]

\* GetPackagesWithBinaries
Binaries(ts, name) ==
    LET idx == SelectSeq([i \in DOMAIN ts |-> i],
                         LAMBDA i : ts[i].PackageName # "" /\ ts[i].PackageName = name)
    IN [k \in DOMAIN idx |-> ts[idx[k]].Name]

PackageInfo(pkg, binaries) ==
    [Name |-> pkg.Name, Version |-> pkg.Version, Manager |-> pkg.Manager,
     Binaries |-> binaries, Location |-> pkg.Location, Global |-> pkg.Global]

\* GetPackagesWithBinaries keeping the packages no tool is linked to.
GetPackagesWithBinariesUnfiltered(packages, ts) ==
    [k \in DOMAIN packages |-> PackageInfo(packages[k], Binaries(ts, packages[k].Name))]

GetPackagesWithBinaries(packages, ts) ==
    LET idx == SelectSeq([i \in DOMAIN packages |-> i],
                         LAMBDA i : Len(Binaries(ts, packages[i].Name)) > 0)
    IN [k \in DOMAIN idx |->
          PackageInfo(packages[idx[k]], Binaries(ts, packages[idx[k]].Name))]

(***************************************************************************)
(* internal/packages: the detector                                         *)
(*                                                                         *)
(* runs[c] is what running list command c gives: [hangs, err, out].        *)
(* For the JSON backends out is [valid, items], the decoding of the bytes  *)
(* by encoding/json; for the text backends out is the text.                *)
(***************************************************************************)

\* NewDetector: enabledManagers
enabledManagers == <<NPM, Pip, Brew, Cargo, Go, Gem>>

Failed == [err |-> TRUE, pkgs |-> <<>>]

Detected(packages) == [err |-> FALSE, pkgs |-> packages]

\* detectNPM; order is the order the dependencies map is ranged over.
detectNPM(runs, order) ==
    LET run == runs["npm"]
    IN IF run.err \/ ~run.out.valid THEN Failed
       ELSE Detected([i \in DOMAIN order |->
                         Package(order[i].name, order[i].version, NPM, TRUE)])

\* detectPip: pip, then pip3.
detectPip(runs) ==
    LET run == IF runs["pip"].err THEN runs["pip3"] ELSE runs["pip"]
    IN IF run.err \/ ~run.out.valid THEN Failed
       ELSE Detected([i \in DOMAIN run.out.items |->
                         Package(run.out.items[i].name, run.out.items[i].version, Pip, FALSE)])

\* The trimmed, non-empty lines of a listing.
RECURSIVE TrimmedLines(_)
TrimmedLines(lines) ==
    IF lines = <<>> THEN <<>>
    ELSE LET line == TrimSpace(Head(lines))
         IN (IF line = "" THEN <<>> ELSE <<line>>) \o TrimmedLines(Tail(lines))

RECURSIVE BrewPackages(_)
BrewPackages(lines) ==
    IF lines = <<>> THEN <<>>
    ELSE LET parts == Fields(Head(lines))
         IN (IF Len(parts) >= 2 THEN <<Package(parts[1], parts[2], Brew, TRUE)>> ELSE <<>>)
            \o BrewPackages(Tail(lines))

detectBrew(runs) ==
    LET run == runs["brew"]
    IN IF run.err THEN Failed
       ELSE Detected(BrewPackages(TrimmedLines(Split(run.out, "\n"))))

RECURSIVE CargoPackages(_)
CargoPackages(lines) ==
    IF lines = <<>> THEN <<>>
    ELSE LET line == Head(lines)
             parts == Fields(line)
         IN (IF ~HasPrefix(line, " ") /\ Len(parts) >= 2
             THEN <<Package(parts[1], Trim(parts[2], "v:"), Cargo, TRUE)>>
             ELSE <<>>)
            \o CargoPackages(Tail(lines))

detectCargo(runs) ==
    LET run == runs["cargo"]
    IN IF run.err THEN Failed
       ELSE Detected(CargoPackages(TrimmedLines(Split(run.out, "\n"))))

detectGo == Detected(<<>>)

RECURSIVE GemPackages(_)
GemPackages(lines) ==
    IF lines = <<>> THEN <<>>
    ELSE LET parts == Split(Head(lines), " (")
         IN (IF Len(parts) = 2
             THEN <<Package(parts[1],
                            TrimSpace(Split(TrimSuffix(parts[2], ")"), ",")[1]),
                            Gem, FALSE)>>
             ELSE <<>>)
            \o GemPackages(Tail(lines))

detectGem(runs) ==
    LET run == runs["gem"]
    IN IF run.err THEN Failed
       ELSE Detected(GemPackages(TrimmedLines(Split(run.out, "\n"))))

detectByManager(runs, manager, order) ==
    CASE manager = NPM -> detectNPM(runs, order)
      [] manager = Pip -> detectPip(runs)
      [] manager = Brew -> detectBrew(runs)
      [] manager = Cargo -> detectCargo(runs)
      [] manager = Go -> detectGo
      [] manager = Gem -> detectGem(runs)
      [] OTHER -> Detected(<<>>)

\* The commands one backend runs, in order.
Commands(runs, manager) ==
    CASE manager = NPM -> <<"npm">>
      [] manager = Pip -> IF runs["pip"].err THEN <<"pip", "pip3">> ELSE <<"pip">>
      [] manager = Brew -> <<"brew">>
      [] manager = Cargo -> <<"cargo">>
      [] manager = Gem -> <<"gem">>
      [] OTHER -> <<>>

\* A backend whose command never exits: cmd.Output() has no deadline.
Hangs(runs, manager) ==
    \E i \in DOMAIN Commands(runs, manager) : runs[Commands(runs, manager)[i]].hangs

\* DetectAll's loop returning at the first backend that fails.
RECURSIVE DetectFromUntilFailure(_, _, _, _)
DetectFromUntilFailure(runs, i, order, st) ==
    IF i > Len(enabledManagers) THEN st
    ELSE LET m == enabledManagers[i]
             r == detectByManager(runs, m, order)
             q == Append(st.queried, m)
         IN IF Hangs(runs, m) THEN [st EXCEPT !.queried = q, !.hung = TRUE]
            ELSE IF r.err THEN [st EXCEPT !.queried = q]
            ELSE DetectFromUntilFailure(runs, i + 1, order,
                            [st EXCEPT !.queried = q, !.packages = st.packages \o r.pkgs])

\* DetectAll's loop from manager index i on; st = [packages, queried, hung].
RECURSIVE DetectFrom(_, _, _, _)
DetectFrom(runs, i, order, st) ==
    IF i > Len(enabledManagers) THEN st
    ELSE LET m == enabledManagers[i]
             r == detectByManager(runs, m, order)
             q == Append(st.queried, m)
         IN IF Hangs(runs, m) THEN [st EXCEPT !.queried = q, !.hung = TRUE]
            ELSE IF r.err THEN DetectFrom(runs, i + 1, order, [st EXCEPT !.queried = q])
            ELSE DetectFrom(runs, i + 1, order,
                            [st EXCEPT !.queried = q, !.packages = st.packages \o r.pkgs])

DetectAll(runs, order) ==
    DetectFrom(runs, 1, order, [packages |-> <<>>, queried |-> <<>>, hung |-> FALSE])

\* The orders in which a Go map with the given entries can be ranged over.
RECURSIVE Orders(_)
Orders(items) ==
    IF items = {} THEN {<<>>}
    ELSE UNION {{<<x>> \o rest : rest \in Orders(items \ {x})} : x \in items}

NpmOrders(runs) ==
    IF runs["npm"].err \/ runs["npm"].hangs \/ ~runs["npm"].out.valid
    THEN {<<>>}
    ELSE Orders(runs["npm"].out.items)

(***************************************************************************)
(* internal/collector                                                      *)
(*                                                                         *)
(* runs[flag] is what exec.Command(path, flag).CombinedOutput() gives:     *)
(* [hangs, err, out].                                                      *)
(***************************************************************************)

versionFlags == <<"--version", "-version", "version", "-v">>

helpFlags == <<"--help", "-help", "help", "-h">>

MaxVersionLine == 200

MaxHelpText == 5000

\* getVersion taking the output of a run whatever its exit status.
RECURSIVE VersionFromAnyExit(_, _)
VersionFromAnyExit(runs, i) ==
    IF i > Len(versionFlags) THEN [hung |-> FALSE, value |-> ""]
    ELSE LET run == runs[versionFlags[i]]
             line == Split(run.out, "\n")[1]
         IN IF run.hangs THEN [hung |-> TRUE, value |-> ""]
            ELSE IF Len(run.out) > 0 /\ Len(line) > 0 /\ Len(line) < MaxVersionLine
            THEN [hung |-> FALSE, value |-> TrimSpace(line)]
            ELSE VersionFromAnyExit(runs, i + 1)

\* getVersion from flag index i on: [hung, value].
RECURSIVE VersionFrom(_, _)
VersionFrom(runs, i) ==
    IF i > Len(versionFlags) THEN [hung |-> FALSE, value |-> ""]
    ELSE LET run == runs[versionFlags[i]]
             line == Split(run.out, "\n")[1]
         IN IF run.hangs THEN [hung |-> TRUE, value |-> ""]
            ELSE IF ~run.err /\ Len(run.out) > 0 /\ Len(line) > 0 /\ Len(line) < MaxVersionLine
            THEN [hung |-> FALSE, value |-> TrimSpace(line)]
            ELSE VersionFrom(runs, i + 1)

getVersion(runs) == VersionFrom(runs, 1)

\* getHelpText from flag index i on: [hung, value].
RECURSIVE HelpFrom(_, _)
HelpFrom(runs, i) ==
    IF i > Len(helpFlags) THEN [hung |-> FALSE, value |-> ""]
    ELSE LET run == runs[helpFlags[i]]
         IN IF run.hangs THEN [hung |-> TRUE, value |-> ""]
            ELSE IF ~run.err /\ Len(run.out) > 0
            THEN [hung |-> FALSE,
                  value |-> IF Len(run.out) > MaxHelpText
                            THEN SubSeq(run.out, 1, MaxHelpText) \o "\n... (truncated)"
                            ELSE run.out]
            ELSE HelpFrom(runs, i + 1)

getHelpText(runs) == HelpFrom(runs, 1)

\* os.Lstat(path): the entries at that path.
LstatPath(path) ==
    UNION {{e \in fs[d].entries : ~e.InfoErr /\ Join(d, e.Name) = path} :
             d \in {x \in DOMAIN fs : fs[x].readable}}

\* CollectToolInfo returning the error of os.Lstat.
CollectToolInfoStatError(runs, toolName, toolPath) ==
    LET tool == [ZeroTool EXCEPT !.Name = toolName, !.Path = toolPath]
        hit == LstatPath(toolPath)
        e == CHOOSE x \in hit : TRUE
        isLink == BitAnd(e.Mode, ModeSymlink) # 0
        sized == [tool EXCEPT !.Size = e.Size,
                              !.IsSymlink = isLink,
                              !.SymlinkTo = IF isLink /\ ~e.ReadlinkErr THEN e.Target ELSE ""]
    IN IF hit = {} THEN [hung |-> FALSE, err |-> TRUE, tool |-> ZeroTool]
       ELSE IF getVersion(runs).hung \/ getHelpText(runs).hung
       THEN [hung |-> TRUE, err |-> FALSE, tool |-> sized]
       ELSE [hung |-> FALSE, err |-> FALSE,
             tool |-> [sized EXCEPT !.Version = getVersion(runs).value,
                                    !.HelpText = getHelpText(runs).value]]

\* CollectToolInfo: [hung, err, tool]; err is the error returned, nil on every path.
CollectToolInfo(runs, toolName, toolPath) ==
    LET tool == [ZeroTool EXCEPT !.Name = toolName, !.Path = toolPath]
        hit == LstatPath(toolPath)
        e == CHOOSE x \in hit : TRUE
        isLink == BitAnd(e.Mode, ModeSymlink) # 0
        sized == [tool EXCEPT !.Size = e.Size,
                              !.IsSymlink = isLink,
                              !.SymlinkTo = IF isLink /\ ~e.ReadlinkErr THEN e.Target ELSE ""]
    IN IF hit = {} THEN [hung |-> FALSE, err |-> FALSE, tool |-> tool]
       ELSE IF getVersion(runs).hung \/ getHelpText(runs).hung
       THEN [hung |-> TRUE, err |-> FALSE, tool |-> sized]
       ELSE [hung |-> FALSE, err |-> FALSE,
             tool |-> [sized EXCEPT !.Version = getVersion(runs).value,
                                    !.HelpText = getHelpText(runs).value]]

\* BuildCatalog counting only the tools linked to a package.
BuildCatalogCountsLinked(ts, searchPaths) ==
    [TotalTools |-> Len(SelectSeq(ts, LAMBDA t : t.PackageName # "")),
     TotalPackages |-> 0, Paths |-> searchPaths, Tools |-> ts, Packages |-> <<>>]

\* BuildCatalog
BuildCatalog(ts, searchPaths) ==
    [TotalTools |-> Len(ts), TotalPackages |-> 0, Paths |-> searchPaths,
     Tools |-> ts, Packages |-> <<>>]

(***************************************************************************)
(* The audit command: performAudit and its helpers                         *)
(*                                                                         *)
(* Go ranges over a map in an unspecified order; every function below that *)
(* ranges over one takes that order as an argument.                        *)
(***************************************************************************)

\* LinkedGroup without the test of PackageName.
LinkedGroupUnfiltered(ts, name) == SelectSeq(ts, LAMBDA t : t.Name = name)

\* toolGroups[name] of findClashes: the linked tools of a name, in input order.
LinkedGroup(ts, name) == SelectSeq(ts, LAMBDA t : t.PackageName # "" /\ t.Name = name)

\* toolGroups[name] of findShadowedTools: all tools of a name, in input order.
Group(ts, name) == SelectSeq(ts, LAMBDA t : t.Name = name)

LinkedNames(ts) == {ts[i].Name : i \in {j \in DOMAIN ts : ts[j].PackageName # ""}}

AllNames(ts) == {ts[i].Name : i \in DOMAIN ts}

InstallationInfo(instance, i) ==
    [Path |-> instance.Path, PackageName |-> instance.PackageName,
     PackageManager |-> instance.PackageManager, Version |-> instance.PackageVersion,
     IsActive |-> i = 1]

ToolClash(name, instances) ==
    [ToolName |-> name,
     Installations |-> [i \in DOMAIN instances |-> InstallationInfo(instances[i], i)]]

\* findClashes; order: the keys of toolGroups as ranged over.
RECURSIVE findClashes(_, _)
findClashes(ts, order) ==
    IF order = <<>> THEN <<>>
    ELSE LET instances == LinkedGroup(ts, Head(order))
             packageSeen == {instances[i].PackageName : i \in DOMAIN instances}
         IN (IF Cardinality(packageSeen) > 1
             THEN <<ToolClash(Head(order), instances)>>
             ELSE <<>>)
            \o findClashes(ts, Tail(order))

ShadowedTool(name, active, shadow) ==
    [ToolName |-> name, ActivePath |-> active.Path, ShadowedPath |-> shadow.Path,
     ActivePackage |-> active.PackageName, ShadowedPackage |-> shadow.PackageName]

\* findShadowedTools; order: the keys of toolGroups as ranged over.
RECURSIVE findShadowedTools(_, _)
findShadowedTools(ts, order) ==
    IF order = <<>> THEN <<>>
    ELSE LET instances == Group(ts, Head(order))
         IN [k \in 1..(Len(instances) - 1) |->
                ShadowedTool(Head(order), instances[1], instances[k + 1])]
            \o findShadowedTools(ts, Tail(order))

PackageManagerInfo(packages, ts, manager) ==
    [Name |-> manager,
     PackageCount |-> Cardinality({i \in DOMAIN packages : packages[i].Manager = manager}),
     ToolCount |-> Cardinality({i \in DOMAIN ts : ts[i].PackageManager # ""
                                                  /\ ts[i].PackageManager = manager})]

Managers(packages) == {packages[i].Manager : i \in DOMAIN packages}

\* analyzePackageManagers; order: the managers as sort.Slice leaves them.
analyzePackageManagers(packages, ts, order) ==
    [i \in DOMAIN order |-> PackageManagerInfo(packages, ts, order[i])]

\* The managers in any order, as the map is ranged over, without the sort.
ManagerOrdersUnsorted(packages, ts) == Orders(Managers(packages))

\* The orders sort.Slice can leave the managers in: by ToolCount, largest first.
ManagerOrders(packages, ts) ==
    {o \in Orders(Managers(packages)) :
        \A i, j \in DOMAIN o :
            i < j => PackageManagerInfo(packages, ts, o[i]).ToolCount
                     >= PackageManagerInfo(packages, ts, o[j]).ToolCount}

Recommendation(severity, category, issue) ==
    [Severity |-> severity, Category |-> category, Issue |-> issue]

\* unmanagedPercent > 20 with the quotient taken in integers.
UnmanagedOverThresholdIntegers(result) ==
    result.TotalTools # 0 /\ (result.UnmanagedTools \div result.TotalTools) * 100 > 20

\* unmanagedPercent > 20, computed in float64; 0/0 is NaN, which is not > 20.
UnmanagedOverThreshold(result) ==
    result.TotalTools # 0 /\ result.UnmanagedTools * 100 > 20 * result.TotalTools

generateRecommendations(result) ==
    LET recs ==
            (IF Len(result.Clashes) > 0
             THEN <<Recommendation("high", "Installation Conflicts", "clashes")>> ELSE <<>>)
            \o (IF Len(result.ShadowedTools) > 0
                THEN <<Recommendation("medium", "Shadowed Installations", "shadowed")>> ELSE <<>>)
            \o (IF UnmanagedOverThreshold(result)
                THEN <<Recommendation("low", "Package Management", "unmanaged")>> ELSE <<>>)
            \o (IF Len(result.PackageManagers) = 1
                THEN <<Recommendation("low", "Package Management", "one manager")>> ELSE <<>>)
    IN IF Len(recs) = 0
       THEN <<Recommendation("info", "System Health", "No issues detected")>>
       ELSE recs

\* performAudit taking the number of tool names for the number of tools.
performAuditCountsNames(ts, packages, clashOrder, shadowOrder, managerOrder) ==
    LET counted ==
            [TotalTools |-> Cardinality(AllNames(ts)),
             PackageManagedTools |-> Cardinality({i \in DOMAIN ts : ts[i].PackageName # ""}),
             UnmanagedTools |-> Cardinality({i \in DOMAIN ts : ts[i].PackageName = ""}),
             Clashes |-> findClashes(ts, clashOrder),
             ShadowedTools |-> findShadowedTools(ts, shadowOrder),
             PackageManagers |-> analyzePackageManagers(packages, ts, managerOrder)]
    IN [TotalTools |-> counted.TotalTools,
        PackageManagedTools |-> counted.PackageManagedTools,
        UnmanagedTools |-> counted.UnmanagedTools,
        Clashes |-> counted.Clashes,
        ShadowedTools |-> counted.ShadowedTools,
        PackageManagers |-> counted.PackageManagers,
        Recommendations |-> generateRecommendations(counted)]

\* performAudit, up to the rendering of the report.
performAudit(ts, packages, clashOrder, shadowOrder, managerOrder) ==
    LET counted ==
            [TotalTools |-> Len(ts),
             PackageManagedTools |-> Cardinality({i \in DOMAIN ts : ts[i].PackageName # ""}),
             UnmanagedTools |-> Cardinality({i \in DOMAIN ts : ts[i].PackageName = ""}),
             Clashes |-> findClashes(ts, clashOrder),
             ShadowedTools |-> findShadowedTools(ts, shadowOrder),
             PackageManagers |-> analyzePackageManagers(packages, ts, managerOrder)]
    IN [TotalTools |-> counted.TotalTools,
        PackageManagedTools |-> counted.PackageManagedTools,
        UnmanagedTools |-> counted.UnmanagedTools,
        Clashes |-> counted.Clashes,
        ShadowedTools |-> counted.ShadowedTools,
        PackageManagers |-> counted.PackageManagers,
        Recommendations |-> generateRecommendations(counted)]

(***************************************************************************)
(* Bounds and the inputs drawn within them                                  *)
(***************************************************************************)

\* The longest search path.
MaxPathLen == 2

\* The sequences over S of length at most n.
RECURSIVE SeqsUpTo(_, _)
SeqsUpTo(S, n) ==
    IF n = 0 THEN {<<>>}
    ELSE LET shorter == SeqsUpTo(S, n - 1)
         IN shorter \cup {Append(q, x) : q \in {r \in shorter : Len(r) = n - 1}, x \in S}

\* The directories of the filesystem, and the ways PATH spells them.
Dirs == {"/a", "/b"}

PathElements == {"/a", "/b", "/b/"}

\* The entries each directory may hold; a directory holds at most one per name.
\* /a has the entries the scan loops pass over, /b plain files.
EntriesOf(dir) ==
    IF dir = "/a"
    THEN {RegularFile("foo", 493, 10), RegularFile("foo", 420, 10),
          Vanished("foo"), SubDir("foo"),
          SymLink("bar", "../Cellar/bar/1.0/bin/bar", 493, 40),
          RegularFile("httpd", 493, 7)}
    ELSE {RegularFile("foo", 493, 20), RegularFile("bar", 493, 5),
          RegularFile("httpd", 493, 7)}

Listings(entries) ==
    {l \in SUBSET entries : \A e1, e2 \in l : e1.Name = e2.Name => e1 = e2}

\* The states a directory can be in.
DirStates(dir) == {Directory(l) : l \in Listings(EntriesOf(dir))} \cup {Unreadable}

FileSystems == {f \in [Dirs -> UNION {DirStates(d) : d \in Dirs}] :
                   \A d \in Dirs : f[d] \in DirStates(d)}

ScanNames == UNION {{e.Name : e \in EntriesOf(d)} : d \in Dirs}

NoRuns == [c \in {} |-> 0]

NoAudit == [TotalTools |-> 0, PackageManagedTools |-> 0, UnmanagedTools |-> 0,
            Clashes |-> <<>>, ShadowedTools |-> <<>>, PackageManagers |-> <<>>,
            Recommendations |-> <<>>]

\* A command that has not started: nothing scanned, detected or written yet.
Fresh ==
    /\ cmd = "none"
    /\ phase = "start"
    /\ names = <<>>
    /\ scanned = <<>>
    /\ tools = <<>>
    /\ found = NotExist
    /\ info = ZeroTool
    /\ pkgs = <<>>
    /\ detectErr = ""
    /\ queried = <<>>
    /\ audit = NoAudit
    /\ catalog = BuildCatalog(<<>>, <<>>)

\* What one run of an external process gives.
Exited(err, out) == [hangs |-> FALSE, err |-> err, out |-> out]

NeverExits == [hangs |-> TRUE, err |-> TRUE, out |-> ""]

\* An executable's answer to each probe flag, one function per kind of executable.
Answers(version, help) ==
    [f \in {versionFlags[i] : i \in DOMAIN versionFlags}
           \cup {helpFlags[i] : i \in DOMAIN helpFlags} |->
        IF \E i \in DOMAIN versionFlags : versionFlags[i] = f
        THEN version[CHOOSE i \in DOMAIN versionFlags : versionFlags[i] = f]
        ELSE help[CHOOSE i \in DOMAIN helpFlags : helpFlags[i] = f]]

Rejects == Exited(TRUE, "unknown flag\nusage: tool")

Silent == Exited(FALSE, "")

NotRun == Exited(TRUE, "")

ProbeChoices ==
    {Answers(<<Exited(FALSE, "tool 1.2.3\nbuilt today\n"), Rejects, Rejects, Rejects>>,
             <<Exited(FALSE, "usage: tool [flags]\n"), Rejects, Rejects, Rejects>>),
     Answers(<<Rejects, Rejects, Exited(FALSE, " v0.9 \n"), Silent>>,
             <<Rejects, Silent, Exited(FALSE, "help\n"), Silent>>),
     Answers(<<Exited(FALSE, "\n1.0\n"), Silent, NotRun, Exited(FALSE, "1.0")>>,
             <<Silent, Silent, Silent, Exited(FALSE, "h")>>),
     Answers(<<Silent, Silent, Silent, Silent>>, <<Silent, Silent, Silent, Silent>>),
     Answers(<<NotRun, NotRun, NotRun, NotRun>>, <<NotRun, NotRun, NotRun, NotRun>>),
     Answers(<<Rejects, NotRun, NeverExits, Silent>>, <<Silent, Silent, Silent, Silent>>),
     Answers(<<Exited(FALSE, "2.0\n"), Silent, Silent, Silent>>,
             <<Rejects, NeverExits, Silent, Silent>>)}

\* The executables of the scanned directories: one that answers both probes,
\* one that prints nothing, one that never exits.
ScanProbes ==
    {p \in ProbeChoices : \/ ~p["--help"].err /\ p["--help"].out # ""
                          \/ ~p["--version"].err /\ p["version"] = Silent}

\* Package lists as DetectAll can return them for the scanned names.
ScanPackageChoices ==
    {<<>>,
     <<Package("foo", "1.0.0", NPM, TRUE), Package("bar", "1.0", Brew, TRUE)>>,
     <<Package("bar", "1.0", Brew, TRUE)>>}

(***************************************************************************)
(* SpecScan: the scanner's entry points on any search path and directory   *)
(* contents, with the two operations that take over its tools              *)
(***************************************************************************)

InitScan ==
    /\ paths \in SeqsUpTo(PathElements, MaxPathLen)
    /\ fs \in FileSystems
    /\ backends = NoRuns
    /\ probes = NoRuns
    /\ Fresh

RunScanAll ==
    /\ phase = "start"
    /\ names' = ScanAll
    /\ phase' = "names"
    /\ UNCHANGED <<paths, fs, backends, probes, cmd, scanned, tools, found, info,
                   pkgs, detectErr, queried, audit, catalog>>

RunScanAllDetailed ==
    /\ phase = "start"
    /\ scanned' = ScanAllDetailed
    /\ tools' = ScanAllDetailed
    /\ phase' = "scanned"
    /\ UNCHANGED <<paths, fs, backends, probes, cmd, names, found, info,
                   pkgs, detectErr, queried, audit, catalog>>

RunFindTool ==
    /\ phase = "start"
    /\ \E name \in ScanNames : found' = FindTool(name)
    /\ phase' = "found"
    /\ UNCHANGED <<paths, fs, backends, probes, cmd, names, scanned, tools, info,
                   pkgs, detectErr, queried, audit, catalog>>

\* CollectToolInfo on one of the scanned tools, as the export loop calls it.
RunCollectToolInfo ==
    /\ phase = "scanned"
    /\ \E i \in DOMAIN tools, runs \in ScanProbes :
          LET r == CollectToolInfo(runs, tools[i].Name, tools[i].Path)
          IN /\ probes' = runs
             /\ info' = IF r.hung \/ r.err THEN info ELSE r.tool
             /\ phase' = IF r.hung THEN "probing"
                         ELSE IF r.err THEN "failed" ELSE "collected"
    /\ UNCHANGED <<paths, fs, backends, cmd, names, scanned, tools, found,
                   pkgs, detectErr, queried, audit, catalog>>

\* LinkTools on the scanned tools.
RunLinkTools ==
    /\ phase = "scanned"
    /\ \E packages \in ScanPackageChoices :
          LET r == LinkTools(NewLinker(packages), tools)
          IN /\ pkgs' = packages
             /\ scanned' = r.arg
             /\ tools' = r.enriched
    /\ phase' = "linked"
    /\ UNCHANGED <<paths, fs, backends, probes, cmd, names, found, info,
                   detectErr, queried, audit, catalog>>

NextScan ==
    \/ RunScanAll
    \/ RunScanAllDetailed
    \/ RunFindTool
    \/ RunCollectToolInfo
    \/ RunLinkTools

SpecScan == InitScan /\ [][NextScan]_vars

\* An entry that claims its name: a non-directory that can be lstat-ed, is
\* executable by someone and passes the inclusion filter.
Claims(e) ==
    /\ ~e.IsDir
    /\ ~e.InfoErr
    /\ \E bit \in {1, 8, 64} : (e.Mode \div bit) % 2 = 1
    /\ shouldIncludeTool(e.Name)

\* The entries of search-path element i that claim name n.
ClaimingAt(i, n) ==
    IF fs[Clean(paths[i])].readable
    THEN {e \in fs[Clean(paths[i])].entries : e.Name = n /\ Claims(e)}
    ELSE {}

\* The first search-path index whose directory claims n; 0 if none does.
FirstClaim(n) ==
    LET is == {i \in DOMAIN paths : ClaimingAt(i, n) # {}}
    IN IF is = {} THEN 0 ELSE CHOOSE i \in is : \A j \in is : i <= j

\* C1: the lists returned by ScanAllDetailed and by ScanAll hold no name twice.
C1_NamesDistinct ==
    /\ \A i, j \in DOMAIN scanned : i # j => scanned[i].Name # scanned[j].Name
    /\ \A i, j \in DOMAIN names : i # j => names[i] # names[j]

\* C1's case: one name executable in two directories of the path, scanned.
C1_Witness ==
    /\ phase = "scanned"
    /\ Len(paths) = 2
    /\ ClaimingAt(1, "foo") # {}
    /\ ClaimingAt(2, "foo") # {}
    /\ paths[1] # paths[2]
    /\ \E i \in DOMAIN scanned : scanned[i].Name = "foo"

\* C2: first match wins. The tools of ScanAllDetailed are the claimed names, each
\* with the path and size of its entry in the first directory that claims it, in
\* order of discovery: by directory, then by filename within a directory.
C2_FirstMatchWins ==
    phase = "scanned" =>
        /\ {scanned[k].Name : k \in DOMAIN scanned} = {n \in ScanNames : FirstClaim(n) # 0}
        /\ \A k \in DOMAIN scanned :
              LET n == scanned[k].Name
                  i == FirstClaim(n)
              IN /\ i # 0
                 /\ scanned[k].Path = Clean(paths[i]) \o "/" \o n
                 /\ \E e \in ClaimingAt(i, n) : scanned[k].Size = e.Size
        /\ \A k, m \in DOMAIN scanned :
              k < m =>
                 \/ FirstClaim(scanned[k].Name) < FirstClaim(scanned[m].Name)
                 \/ /\ FirstClaim(scanned[k].Name) = FirstClaim(scanned[m].Name)
                    /\ StrLess(scanned[k].Name, scanned[m].Name)
        /\ (/\ paths = <<"/a", "/b">>
            /\ fs["/a"] = Directory({RegularFile("foo", 493, 10)})
            /\ fs["/b"] = Directory({RegularFile("foo", 493, 20), RegularFile("bar", 493, 5)}))
           => scanned = <<[ZeroTool EXCEPT !.Name = "foo", !.Path = "/a/foo", !.Size = 10],
                          [ZeroTool EXCEPT !.Name = "bar", !.Path = "/b/bar", !.Size = 5]>>

\* C2's case: the scenario of the specification, and an earlier directory whose
\* entry of the name does not claim it.
C2_Witness ==
    /\ phase = "scanned"
    /\ paths = <<"/a", "/b">>
    /\ fs["/a"] = Directory({RegularFile("foo", 420, 10), RegularFile("httpd", 493, 7)})
    /\ fs["/b"] = Directory({RegularFile("foo", 493, 20), RegularFile("bar", 493, 5)})
    /\ Len(scanned) = 2
    /\ scanned[2].Path = "/b/foo"

\* C9: a tool that is not a symlink has no symlink target, in every tool that
\* ScanAllDetailed, FindTool, CollectToolInfo or LinkTools hands back.
NoTargetUnlessSymlink(t) == ~t.IsSymlink => t.SymlinkTo = ""

C9_SymlinkToOnlyOnSymlinks ==
    /\ \A i \in DOMAIN scanned : NoTargetUnlessSymlink(scanned[i])
    /\ \A i \in DOMAIN tools : NoTargetUnlessSymlink(tools[i])
    /\ found.err = "" => NoTargetUnlessSymlink(found.tool)
    /\ NoTargetUnlessSymlink(info)

\* C9's case: a scan that returned a symlink and a plain file, linked.
C9_Witness ==
    /\ phase = "linked"
    /\ \E i, j \in DOMAIN tools :
          /\ tools[i].IsSymlink /\ tools[i].SymlinkTo # "" /\ tools[i].PackageName # ""
          /\ ~tools[j].IsSymlink /\ tools[j].SymlinkTo = ""

(***************************************************************************)
(* SpecLink: the linker on scanned tools and a detected package list       *)
(***************************************************************************)

\* The longest tool list and the longest package list given to the linker.
MaxTools == 2

MaxPackages == 3

ScannedFile(name, path, size) ==
    [ZeroTool EXCEPT !.Name = name, !.Path = path, !.Size = size]

ScannedLink(name, path, target, size) ==
    [ZeroTool EXCEPT !.Name = name, !.Path = path, !.Size = size,
                     !.IsSymlink = TRUE, !.SymlinkTo = target]

\* Tools as ScanAllDetailed returns them.
LinkToolChoices ==
    {ScannedFile("widget", "/usr/local/bin/widget", 10),
     ScannedLink("foo", "/usr/local/bin/foo", "../lib/node_modules/bar/bin/foo.js", 30),
     ScannedFile("mytool-cli", "/usr/bin/mytool-cli", 12),
     ScannedFile("cli-x-cli", "/usr/bin/cli-x-cli", 14),
     ScannedFile("rg", "/home/u/.cargo/bin/rg", 16),
     ScannedLink("baz", "/opt/homebrew/bin/baz", "../Cellar/qux/1.0/bin/baz", 25)}

\* The packages the backends can report, in the order DetectAll appends them.
Inventory ==
    <<Package("widget", "2.1", NPM, TRUE), Package("bar", "1.0.0", NPM, TRUE),
      Package("foo", "3.0.0", NPM, TRUE), Package("mytool", "0.4", NPM, TRUE),
      Package("cli-x", "1.1", Pip, FALSE), Package("x-cli", "1.2", Pip, FALSE),
      Package("qux", "1.0", Brew, TRUE), Package("rg", "14.0.0", Cargo, TRUE)>>

\* The elements of q at the indices in S, in q's order.
Pick(q, S) ==
    LET idx == SelectSeq([i \in DOMAIN q |-> i], LAMBDA i : i \in S)
    IN [k \in DOMAIN idx |-> q[idx[k]]]

PackageLists ==
    {Pick(Inventory, S) : S \in {T \in SUBSET DOMAIN Inventory : Cardinality(T) <= MaxPackages}}

\* Scan results: tool lists without a repeated name.
ToolLists ==
    {ts \in SeqsUpTo(LinkToolChoices, MaxTools) :
        \A i, j \in DOMAIN ts : i # j => ts[i].Name # ts[j].Name}

NoFileSystem == [d \in Dirs |-> Unreadable]

InitLink ==
    /\ paths = <<>>
    /\ fs = NoFileSystem
    /\ backends = NoRuns
    /\ probes = NoRuns
    /\ cmd = "none"
    /\ phase = "detected"
    /\ names = <<>>
    /\ tools \in ToolLists
    /\ scanned = tools
    /\ found = NotExist
    /\ info = ZeroTool
    /\ pkgs \in PackageLists
    /\ detectErr = ""
    /\ queried = <<>>
    /\ audit = NoAudit
    /\ catalog = BuildCatalog(<<>>, <<>>)

\* linker := NewLinker(pkgs); tools = linker.LinkTools(tools). `scanned` is the
\* caller's slice after the call, `tools` the slice returned.
LinkDetected ==
    /\ phase = "detected"
    /\ LET r == LinkTools(NewLinker(pkgs), tools)
       IN /\ scanned' = r.arg
          /\ tools' = r.enriched
    /\ phase' = "linked"
    /\ UNCHANGED <<paths, fs, backends, probes, cmd, names, found, info,
                   pkgs, detectErr, queried, audit, catalog>>

NextLink == LinkDetected

SpecLink == InitLink /\ [][NextLink]_vars

PackageNames == {pkgs[k].Name : k \in DOMAIN pkgs}

\* The tool carries the name, manager and version of a detected package named n.
LinkedTo(t, n) ==
    /\ t.PackageName = n
    /\ \E k \in DOMAIN pkgs :
          /\ pkgs[k].Name = n
          /\ t.PackageManager = pkgs[k].Manager
          /\ t.PackageVersion = pkgs[k].Version

\* C5: a tool whose name is the name of a detected package is linked to that
\* package, whatever its path, its symlink target or the stripped forms of its
\* name would match.
C5_ExactNameWins ==
    phase = "linked" =>
        \A i \in DOMAIN tools :
            scanned[i].Name \in PackageNames => LinkedTo(tools[i], scanned[i].Name)

\* C5's case: a tool whose symlink target lies in another detected package's
\* node_modules directory, and the scenario's widget.
C5_Witness ==
    /\ phase = "linked"
    /\ {"foo", "bar", "widget"} \subseteq PackageNames
    /\ \E i, j \in DOMAIN tools :
          /\ scanned[i].Name = "foo"
          /\ Contains(scanned[i].SymlinkTo, "node_modules/bar/")
          /\ tools[i].PackageName = "foo"
          /\ scanned[j].Path = "/usr/local/bin/widget"
          /\ tools[j].PackageVersion = "2.1"

\* The stripped forms of a tool name, in the order of the claim.
StrippedForms(n) ==
    <<IF HasSuffix(n, "-cli") THEN SubSeq(n, 1, Len(n) - 4) ELSE n,
      IF HasPrefix(n, "cli-") THEN SubSeq(n, 5, Len(n)) ELSE n,
      IF HasSuffix(n, "cli") THEN SubSeq(n, 1, Len(n) - 3) ELSE n>>

\* C6: a tool with no package of its name and no match by path is linked to the
\* first detected package among its name less a trailing "-cli", less a leading
\* "cli-", less a trailing "cli", forms equal to the name left out; mytool-cli
\* with package mytool is linked to mytool.
C6_PatternFallback ==
    phase = "linked" =>
        \A i \in DOMAIN tools :
            LET t == scanned[i]
                forms == StrippedForms(t.Name)
                hits == {k \in 1..3 : forms[k] # t.Name /\ forms[k] \in PackageNames}
            IN /\ (/\ t.Name \notin PackageNames
                   /\ detectFromPath(NewLinker(pkgs), t).PackageName = ""
                   /\ hits # {})
                  => LinkedTo(tools[i], forms[CHOOSE k \in hits : \A m \in hits : k <= m])
               /\ (t.Name = "mytool-cli" /\ "mytool" \in PackageNames
                   /\ "mytool-cli" \notin PackageNames)
                  => tools[i].PackageName = "mytool"

\* C6's case: two stripped forms of one name are both detected packages.
C6_Witness ==
    /\ phase = "linked"
    /\ {"cli-x", "x-cli"} \subseteq PackageNames
    /\ \E i \in DOMAIN tools :
          /\ scanned[i].Name = "cli-x-cli"
          /\ tools[i].PackageName = "cli-x"

\* C7: LinkTools returns a list of the length and order of its argument whose
\* tools differ from the argument's in the three package fields at most, and
\* the argument is as it was before the call.
C7_LinkToolsFrame ==
    [][(phase = "detected" /\ phase' = "linked") =>
          /\ scanned' = tools
          /\ Len(tools') = Len(tools)
          /\ \A i \in DOMAIN tools :
                [tools'[i] EXCEPT !.PackageName = tools[i].PackageName,
                                  !.PackageManager = tools[i].PackageManager,
                                  !.PackageVersion = tools[i].PackageVersion] = tools[i]]_vars

\* C7's case: a call that linked one tool of two and left the other unlinked.
C7_Witness ==
    /\ phase = "linked"
    /\ Len(tools) = 2
    /\ \E i, j \in DOMAIN tools :
          /\ tools[i].PackageName # "" /\ scanned[i].PackageName = ""
          /\ tools[j].PackageName = ""

(***************************************************************************)
(* SpecDetect: DetectAll against every combination of backend outcomes     *)
(***************************************************************************)

Json(items) == [valid |-> TRUE, items |-> items]

\* Output that does not decode: of npm (an object) and of pip (an array).
NotJson == [valid |-> FALSE, items |-> {}]

NotJsonArray == [valid |-> FALSE, items |-> <<>>]

\* What each list command can do when run: exit with an error, exit with
\* output, or never exit.
NpmOutcomes ==
    {Exited(TRUE, NotJson), Exited(FALSE, NotJson),
     [hangs |-> TRUE, err |-> TRUE, out |-> NotJson],
     Exited(FALSE, Json({[name |-> "widget", version |-> "2.1"],
                         [name |-> "bar", version |-> "1.0.0"]}))}

PipOutcomes ==
    {Exited(TRUE, NotJsonArray), Exited(FALSE, NotJsonArray),
     Exited(FALSE, Json(<<[name |-> "cli-x", version |-> "1.1"]>>))}

Pip3Outcomes ==
    {Exited(TRUE, NotJsonArray),
     Exited(FALSE, Json(<<[name |-> "x-cli", version |-> "1.2"]>>))}

BrewOutcomes ==
    {Exited(TRUE, ""), Exited(FALSE, "qux 1.0\ngit 2.40 2.41\n"),
     Exited(FALSE, "bar 2.0\n")}

CargoOutcomes ==
    {Exited(TRUE, ""), Exited(FALSE, "rg v14.0.0:\n    rg\n"),
     Exited(FALSE, "bat v0.24.0:\n    bat helper\n")}

GemOutcomes == {Exited(TRUE, ""), NeverExits, Exited(FALSE, "rake (13.0.6, 12.3)\n")}

BackendChoices ==
    {[npm |-> n, pip |-> p, pip3 |-> p3, brew |-> b, cargo |-> c, gem |-> g] :
        n \in NpmOutcomes, p \in PipOutcomes, p3 \in Pip3Outcomes,
        b \in BrewOutcomes, c \in CargoOutcomes, g \in GemOutcomes}

InitDetect ==
    /\ paths = <<>>
    /\ fs = NoFileSystem
    /\ backends \in BackendChoices
    /\ probes = NoRuns
    /\ cmd = "audit"
    /\ phase = "scanned"
    /\ names = <<>>
    /\ scanned = <<>>
    /\ tools = <<>>
    /\ found = NotExist
    /\ info = ZeroTool
    /\ pkgs = <<>>
    /\ detectErr = ""
    /\ queried = <<>>
    /\ audit = NoAudit
    /\ catalog = BuildCatalog(<<>>, <<>>)

\* The commands that detect packages.
DetectsPackages(c) == c \in {"audit", "export --with-packages", "export --with-packages --with-meta"}

\* pkgs, err := detector.DetectAll(); a backend that never exits leaves the
\* command inside the call.
DetectPackages ==
    /\ phase = "scanned"
    /\ DetectsPackages(cmd)
    /\ \E order \in NpmOrders(backends) :
          LET r == DetectAll(backends, order)
          IN /\ queried' = r.queried
             /\ pkgs' = IF r.hung THEN pkgs ELSE r.packages
             /\ phase' = IF r.hung THEN "detecting" ELSE "detected"
    /\ detectErr' = ""
    /\ UNCHANGED <<paths, fs, backends, probes, cmd, names, scanned, tools, found,
                   info, audit, catalog>>

NextDetect == DetectPackages

SpecDetect == InitDetect /\ [][NextDetect]_vars

\* The backend's command exited without error and its output parsed.
Succeeded(m) ==
    CASE m = NPM -> ~backends["npm"].err /\ backends["npm"].out.valid
      [] m = Pip -> IF backends["pip"].err
                    THEN ~backends["pip3"].err /\ backends["pip3"].out.valid
                    ELSE backends["pip"].out.valid
      [] m = Brew -> ~backends["brew"].err
      [] m = Cargo -> ~backends["cargo"].err
      [] m = Go -> TRUE
      [] m = Gem -> ~backends["gem"].err

ManagerIndex(m) == CHOOSE i \in 1..6 : <<NPM, Pip, Brew, Cargo, Go, Gem>>[i] = m

\* The packages of manager m in ps, in the order of ps.
PackagesOf(ps, m) == SelectSeq(ps, LAMBDA p : p.Manager = m)

\* C10: whichever backends fail to run or to parse, DetectAll returns no error
\* and the packages of the backends that succeeded, backend by backend in the
\* order npm, pip, brew, cargo, go, gem; a failed backend contributes nothing
\* and every later backend is still queried.
C10_BackendIsolation ==
    phase = "detected" =>
        /\ detectErr = ""
        /\ queried = <<NPM, Pip, Brew, Cargo, Go, Gem>>
        /\ \A i, j \in DOMAIN pkgs :
              i < j => ManagerIndex(pkgs[i].Manager) <= ManagerIndex(pkgs[j].Manager)
        /\ \E order \in NpmOrders(backends) :
              \A m \in {NPM, Pip, Brew, Cargo, Go, Gem} :
                  PackagesOf(pkgs, m) = IF Succeeded(m)
                                        THEN detectByManager(backends, m, order).pkgs
                                        ELSE <<>>

\* C10's case: npm and brew failed, pip's output did not parse, and cargo and
\* gem, queried after them, gave their packages.
C10_Witness ==
    /\ phase = "detected"
    /\ backends["npm"].err
    /\ ~backends["pip"].err /\ ~backends["pip"].out.valid
    /\ backends["brew"].err
    /\ \E i, j \in DOMAIN pkgs :
          /\ i < j
          /\ pkgs[i] = Package("rg", "14.0.0", Cargo, TRUE)
          /\ pkgs[j] = Package("rake", "13.0.6", Gem, FALSE)

(***************************************************************************)
(* SpecAudit: performAudit on any list of linked tools                     *)
(***************************************************************************)

\* The longest tool list given to performAudit.
MaxAuditTools == 4

LinkedFile(name, path, pkg) ==
    SetPackage([ZeroTool EXCEPT !.Name = name, !.Path = path, !.Size = 10], pkg)

AuditPackages ==
    <<Package("git-js", "1.0.0", NPM, TRUE), Package("nvm-node", "20.1.0", NPM, TRUE),
      Package("git", "2.40", Brew, TRUE), Package("node", "20.0", Brew, TRUE)>>

\* Installations of two names, linked to packages of two names each or unlinked.
AuditToolChoices ==
    {LinkedFile("git", "/usr/local/bin/git", AuditPackages[3]),
     LinkedFile("git", "/usr/bin/git", AuditPackages[1]),
     LinkedFile("git", "/snap/bin/git", AuditPackages[3]),
     [ZeroTool EXCEPT !.Name = "git", !.Path = "/opt/bin/git", !.Size = 10],
     LinkedFile("node", "/usr/bin/node", AuditPackages[4]),
     LinkedFile("node", "/home/u/.nvm/bin/node", AuditPackages[2])}

InitAudit ==
    /\ paths = <<>>
    /\ fs = NoFileSystem
    /\ backends = NoRuns
    /\ probes = NoRuns
    /\ cmd = "audit"
    /\ phase = "linked"
    /\ names = <<>>
    /\ tools \in SeqsUpTo(AuditToolChoices, MaxAuditTools)
    /\ scanned = tools
    /\ found = NotExist
    /\ info = ZeroTool
    /\ pkgs \in {<<>>, AuditPackages, SubSeq(AuditPackages, 3, 4)}
    /\ detectErr = ""
    /\ queried = <<>>
    /\ audit = NoAudit
    /\ catalog = BuildCatalog(<<>>, <<>>)

\* report := performAudit(tools, pkgs), with the orders its map ranges and its
\* sort can take.
PerformAudit ==
    /\ cmd = "audit"
    /\ phase = "linked"
    /\ \E clashOrder \in Orders(LinkedNames(tools)),
          shadowOrder \in Orders(AllNames(tools)),
          managerOrder \in ManagerOrders(pkgs, tools) :
          audit' = performAudit(tools, pkgs, clashOrder, shadowOrder, managerOrder)
    /\ phase' = "audited"
    /\ UNCHANGED <<paths, fs, backends, probes, cmd, names, scanned, tools, found,
                   info, pkgs, detectErr, queried, catalog>>

NextAudit == PerformAudit

SpecAudit == InitAudit /\ [][NextAudit]_vars

\* The indices of the linked tools named n, and the j-th of them.
LinkedAt(n) == {i \in DOMAIN tools : tools[i].Name = n /\ tools[i].PackageName # ""}

NthLinkedAt(n, j) ==
    CHOOSE i \in LinkedAt(n) : Cardinality({m \in LinkedAt(n) : m < i}) = j - 1

\* C4: findClashes gives an entry for a name exactly when the linked tools of
\* that name carry two or more package names, one entry per such name, listing
\* every linked installation of the name in input order, the first one alone
\* with IsActive.
C4_ClashEntries ==
    phase = "audited" =>
        LET cl == audit.Clashes
        IN /\ \A k \in DOMAIN cl : cl[k].ToolName \in {tools[i].Name : i \in DOMAIN tools}
           /\ \A n \in {tools[i].Name : i \in DOMAIN tools} :
                 (Cardinality({tools[i].PackageName : i \in LinkedAt(n)}) >= 2)
                 <=> (\E k \in DOMAIN cl : cl[k].ToolName = n)
           /\ \A k, m \in DOMAIN cl : cl[k].ToolName = cl[m].ToolName => k = m
           /\ \A k \in DOMAIN cl :
                 LET n == cl[k].ToolName
                     inst == cl[k].Installations
                 IN /\ Len(inst) = Cardinality(LinkedAt(n))
                    /\ \A j \in DOMAIN inst :
                          LET t == tools[NthLinkedAt(n, j)]
                          IN /\ inst[j].Path = t.Path
                             /\ inst[j].PackageName = t.PackageName
                             /\ inst[j].PackageManager = t.PackageManager
                             /\ inst[j].Version = t.PackageVersion
                             /\ inst[j].IsActive <=> (j = 1)

\* C4's case: git from two packages with an unlinked git ahead of both, three
\* tools and one clash of two installations.
C4_Witness ==
    /\ phase = "audited"
    /\ Len(tools) = 3
    /\ tools[1].Name = "git" /\ tools[1].PackageName = ""
    /\ Len(audit.Clashes) = 1
    /\ Len(audit.Clashes[1].Installations) = 2
    /\ audit.Clashes[1].Installations[1].Path = tools[2].Path
    /\ audit.Clashes[1].Installations[1].IsActive

(***************************************************************************)
(* Spec: the audit and export commands, from the scan to the report        *)
(***************************************************************************)

CommandLines ==
    {"audit", "export", "export --with-packages", "export --with-meta",
     "export --with-packages --with-meta"}

Exports(c) == c # "audit"

WithMeta(c) == c \in {"export --with-meta", "export --with-packages --with-meta"}

\* The directory contents the commands run against.
CommandFileSystems ==
    {[d \in Dirs |-> IF d = "/a" THEN Directory({RegularFile("foo", 493, 10)})
                     ELSE Directory({RegularFile("foo", 493, 20), RegularFile("bar", 493, 5)})],
     [d \in Dirs |-> IF d = "/a"
                     THEN Directory({SymLink("bar", "../Cellar/bar/1.0/bin/bar", 493, 40),
                                     RegularFile("httpd", 493, 7)})
                     ELSE Directory({RegularFile("foo", 493, 20)})],
     [d \in Dirs |-> IF d = "/a" THEN Unreadable
                     ELSE Directory({RegularFile("bar", 493, 5)})]}

\* The backends: npm and brew both present or both absent, nothing else installed.
CommandBackends ==
    {b \in BackendChoices :
        /\ b.pip.err /\ b.pip3.err /\ b.cargo.err
        /\ b.gem.err /\ ~b.gem.hangs
        /\ b.npm.err <=> b.brew.err}

\* The executables: all of one kind, one that answers --version.
CommandProbes == {p \in ProbeChoices : ~p["--version"].err}

Init ==
    /\ paths \in SeqsUpTo(Dirs, MaxPathLen)
    /\ fs \in CommandFileSystems
    /\ backends \in CommandBackends
    /\ probes \in CommandProbes
    /\ Fresh

\* s := scanner.New(); tools, err := s.ScanAllDetailed(), for either command.
StartScan ==
    /\ phase = "start"
    /\ cmd = "none"
    /\ cmd' \in CommandLines
    /\ scanned' = ScanAllDetailed
    /\ tools' = ScanAllDetailed
    /\ phase' = "scanned"
    /\ UNCHANGED <<paths, fs, backends, probes, names, found, info,
                   pkgs, detectErr, queried, audit, catalog>>

\* The metadata loop putting the collected tool in the place of the scanned one.
RECURSIVE EnrichFromCollected(_, _, _)
EnrichFromCollected(runs, ts, i) ==
    IF i > Len(ts) THEN [hung |-> FALSE, tools |-> ts]
    ELSE LET r == CollectToolInfo(runs, ts[i].Name, ts[i].Path)
         IN IF r.hung THEN [hung |-> TRUE, tools |-> ts]
            ELSE IF r.err THEN EnrichFromCollected(runs, ts, i + 1)
            ELSE EnrichFromCollected(runs, [ts EXCEPT ![i] = r.tool], i + 1)

\* The metadata loop of export from tool i on: [hung, tools].
RECURSIVE EnrichFrom(_, _, _)
EnrichFrom(runs, ts, i) ==
    IF i > Len(ts) THEN [hung |-> FALSE, tools |-> ts]
    ELSE LET r == CollectToolInfo(runs, ts[i].Name, ts[i].Path)
         IN IF r.hung THEN [hung |-> TRUE, tools |-> ts]
            ELSE IF r.err THEN EnrichFrom(runs, ts, i + 1)
            ELSE EnrichFrom(runs,
                            [ts EXCEPT ![i].Version = r.tool.Version,
                                       ![i].HelpText = r.tool.HelpText],
                            i + 1)

\* export --with-meta: CollectToolInfo on every tool; an executable that never
\* exits leaves the command inside the loop.
CollectMetadata ==
    /\ WithMeta(cmd)
    /\ phase = IF DetectsPackages(cmd) THEN "linked" ELSE "scanned"
    /\ LET r == EnrichFrom(probes, tools, 1)
       IN /\ tools' = r.tools
          /\ phase' = IF r.hung THEN "probing" ELSE "enriched"
    /\ UNCHANGED <<paths, fs, backends, probes, cmd, names, scanned, found, info,
                   pkgs, detectErr, queried, audit, catalog>>

\* export: BuildCatalog, then the packages with binaries if any were detected.
ExportCatalog ==
    /\ Exports(cmd)
    /\ phase = IF WithMeta(cmd) THEN "enriched"
               ELSE IF DetectsPackages(cmd) THEN "linked" ELSE "scanned"
    /\ LET built == BuildCatalog(tools, paths)
           pkgsWithBinaries == GetPackagesWithBinaries(pkgs, tools)
       IN catalog' = IF DetectsPackages(cmd) /\ Len(pkgs) > 0
                     THEN [built EXCEPT !.Packages = pkgsWithBinaries,
                                        !.TotalPackages = Len(pkgsWithBinaries)]
                     ELSE built
    /\ phase' = "exported"
    /\ UNCHANGED <<paths, fs, backends, probes, cmd, names, scanned, tools, found,
                   info, pkgs, detectErr, queried, audit>>

Next ==
    \/ StartScan
    \/ DetectPackages
    \/ LinkDetected
    \/ PerformAudit
    \/ CollectMetadata
    \/ ExportCatalog

Spec == Init /\ [][Next]_vars

\* The search-path indices whose directory claims n and differs from the first
\* claiming directory.
LaterClaims(n) ==
    {i \in DOMAIN paths : /\ ClaimingAt(i, n) # {}
                          /\ Clean(paths[i]) # Clean(paths[FirstClaim(n)])}

ShadowRecordsOf(n) ==
    {k \in DOMAIN audit.ShadowedTools : audit.ShadowedTools[k].ToolName = n}

\* C3: on the audit pipeline, when two search directories each hold an included
\* executable of one name, the audit result has one shadow record of that name,
\* its ActivePath the entry of the earlier directory and its ShadowedPath the
\* entry of the later one.
C3_ShadowRecord ==
    (cmd = "audit" /\ phase = "audited") =>
        \A n \in ScanNames :
            (FirstClaim(n) # 0 /\ LaterClaims(n) # {}) =>
                LET later == CHOOSE i \in LaterClaims(n) : \A j \in LaterClaims(n) : i <= j
                IN /\ Cardinality(ShadowRecordsOf(n)) = 1
                   /\ \A k \in ShadowRecordsOf(n) :
                         /\ audit.ShadowedTools[k].ActivePath
                               = Clean(paths[FirstClaim(n)]) \o "/" \o n
                         /\ audit.ShadowedTools[k].ShadowedPath
                               = Clean(paths[later]) \o "/" \o n

\* C8: a catalog's total_tools is the length of its tools list, and so it is in
\* the catalog export writes, after linking and metadata if asked for, whose
\* tools are the command's tools.
C8_TotalToolsIsLength ==
    /\ catalog.TotalTools = Len(catalog.Tools)
    /\ phase = "exported" => catalog.Tools = tools /\ catalog.TotalTools = Len(tools)

\* C8's case: an export with packages and metadata, of a linked tool with a
\* version next to an unlinked one.
C8_Witness ==
    /\ phase = "exported"
    /\ cmd = "export --with-packages --with-meta"
    /\ catalog.TotalTools = 2
    /\ catalog.TotalPackages = 1
    /\ \E i, j \in DOMAIN catalog.Tools :
          /\ catalog.Tools[i].PackageName # "" /\ catalog.Tools[i].Version # ""
          /\ catalog.Tools[j].PackageName = ""

\* The name and the link of every tool of a list.
NamesAndLinks(ts) ==
    [i \in DOMAIN ts |-> <<ts[i].Name, ts[i].PackageName, ts[i].PackageManager,
                           ts[i].PackageVersion>>]

\* C11: a second run of ScanAllDetailed, DetectAll and LinkTools on the same
\* directories and the same backend outputs gives the tool names and the links
\* of the first, in whatever order the second ranges over npm's dependencies.
C11_SameLinksAnyNpmOrder ==
    phase = "linked" =>
        \A order \in NpmOrders(backends) :
            LET second == LinkTools(NewLinker(DetectAll(backends, order).packages),
                                    ScanAllDetailed).enriched
            IN /\ {second[i].Name : i \in DOMAIN second} = {tools[i].Name : i \in DOMAIN tools}
               /\ NamesAndLinks(second) = NamesAndLinks(tools)

\* C11's case: npm reported two packages, so two orders, and brew a package of
\* the name of one of them; the tool of that name is linked.
C11_Witness ==
    /\ phase = "linked"
    /\ Cardinality(NpmOrders(backends)) = 2
    /\ \E i, j \in DOMAIN pkgs :
          pkgs[i].Name = "bar" /\ pkgs[i].Manager = NPM /\ pkgs[j] = Package("bar", "2.0", Brew, TRUE)
    /\ \E i \in DOMAIN tools : tools[i].Name = "bar" /\ tools[i].PackageManager = Brew
    /\ Len(tools) >= 2

(***************************************************************************)
(* SpecCollect: CollectToolInfo on one tool of an earlier scan, against    *)
(* every kind of executable                                                *)
(***************************************************************************)

RECURSIVE Repeat(_, _)
Repeat(c, n) ==
    IF n = 0 THEN ""
    ELSE LET half == Repeat(c, n \div 2)
         IN IF n % 2 = 0 THEN half \o half ELSE half \o half \o c

\* A first line too long to be taken for a version.
LongLine == Repeat("1", MaxVersionLine)

CollectProbes ==
    ProbeChoices
    \cup {Answers(<<Exited(FALSE, LongLine \o "\n"), Exited(FALSE, "3.1\n"), Silent, Silent>>,
                  <<Silent, Silent, Silent, Silent>>),
          Answers(<<Rejects, Rejects, Rejects, Rejects>>,
                  <<Rejects, Rejects, Rejects, Rejects>>)}

\* Tools of an earlier scan; the file may have gone since.
CollectTargets ==
    {ScannedFile("foo", "/a/foo", 10), ScannedFile("bar", "/b/bar", 5),
     ScannedLink("bar", "/a/bar", "../Cellar/bar/1.0/bin/bar", 40),
     ScannedFile("httpd", "/a/httpd", 7)}

InitCollect ==
    /\ paths = <<"/a", "/b">>
    /\ fs \in CommandFileSystems
    /\ backends = NoRuns
    /\ probes \in CollectProbes
    /\ cmd = "none"
    /\ phase = "scanned"
    /\ names = <<>>
    /\ tools \in {<<t>> : t \in CollectTargets}
    /\ scanned = tools
    /\ found = NotExist
    /\ info = ZeroTool
    /\ pkgs = <<>>
    /\ detectErr = ""
    /\ queried = <<>>
    /\ audit = NoAudit
    /\ catalog = BuildCatalog(<<>>, <<>>)

\* enriched, err := c.CollectToolInfo(tools[i].Name, tools[i].Path)
CollectOne ==
    /\ phase = "scanned"
    /\ \E i \in DOMAIN tools :
          LET r == CollectToolInfo(probes, tools[i].Name, tools[i].Path)
          IN /\ info' = IF r.hung \/ r.err THEN info ELSE r.tool
             /\ phase' = IF r.hung THEN "probing"
                         ELSE IF r.err THEN "failed" ELSE "collected"
    /\ UNCHANGED <<paths, fs, backends, probes, cmd, names, scanned, tools, found,
                   pkgs, detectErr, queried, audit, catalog>>

NextCollect == CollectOne

SpecCollect == InitCollect /\ [][NextCollect]_vars

\* A probe that did not start or exited non-zero, or printed nothing.
NoAnswer(run) == ~run.hangs /\ (run.err \/ run.out = "")

\* C12: CollectToolInfo returns no error; when the file cannot be stat-ed, or
\* when every version (help) probe fails to start, exits non-zero or prints
\* nothing, the tool returned has the name and path given and an empty version
\* (help text).
C12_NoErrorFromCollect ==
    /\ phase # "failed"
    /\ phase = "collected" =>
          /\ \E i \in DOMAIN tools : info.Name = tools[i].Name /\ info.Path = tools[i].Path
          /\ LstatPath(info.Path) = {} => info.Version = "" /\ info.HelpText = ""
          /\ (\A i \in DOMAIN versionFlags : NoAnswer(probes[versionFlags[i]]))
                => info.Version = ""
          /\ (\A i \in DOMAIN helpFlags : NoAnswer(probes[helpFlags[i]]))
                => info.HelpText = ""

\* C12's case: the file of a scanned tool is gone when CollectToolInfo runs.
C12_Witness ==
    /\ phase = "collected"
    /\ LstatPath(tools[1].Path) = {}
    /\ info = [ZeroTool EXCEPT !.Name = tools[1].Name, !.Path = tools[1].Path]

\* The command is inside DetectAll or CollectToolInfo, waiting on a process
\* that never exits.
InsideInvocation == phase \in {"detecting", "probing"}

\* C13: an external process that never exits is abandoned after a timeout and
\* counted as failed, so DetectAll and CollectToolInfo return whenever they are
\* called and no command is left waiting inside them.
C13_InvocationsReturn == ~InsideInvocation

\* The severities the rules give for the audited tools and packages, with
\* `single` the severity of the entry for a system of one package manager.
RuleSeverities(single) ==
    LET unmanaged == Cardinality({i \in DOMAIN tools : tools[i].PackageName = ""})
        fired == (IF audit.Clashes # <<>> THEN <<"high">> ELSE <<>>)
                 \o (IF audit.ShadowedTools # <<>> THEN <<"medium">> ELSE <<>>)
                 \o (IF unmanaged * 5 > Len(tools) THEN <<"low">> ELSE <<>>)
                 \o (IF Cardinality({pkgs[i].Manager : i \in DOMAIN pkgs}) = 1
                     THEN <<single>> ELSE <<>>)
    IN IF fired = <<>> THEN <<"info">> ELSE fired

RecommendedSeverities ==
    [i \in DOMAIN audit.Recommendations |-> audit.Recommendations[i].Severity]

PathToolChoices ==
    <<ScannedLink("foo", "/usr/local/bin/foo", "../lib/node_modules/bar/bin/foo.js", 30),
      ScannedLink("nmc", "/usr/local/Cellar/qux/1.0/bin/nmc",
                  "../lib/node_modules/bar/bin/nmc.js", 31),
      ScannedFile("multi",
                  "/usr/local/Cellar/qux/1.0/opt/mytool/node_modules/bar/bin/multi", 32),
      ScannedLink("ripgrep", "/usr/local/bin/ripgrep",
                  "/usr/local/Cellar/none/opt/mytool/.cargo/bin/rg", 33),
      ScannedLink("optool", "/usr/local/opt/qux/bin/optool",
                  "/opt/homebrew/opt/qux/bin/optool", 34),
      ScannedFile("pytool", "/home/u/.pyenv/versions/3/lib/node_modules/bar/bin/pytool", 35),
      ScannedLink("sb", "/usr/local/bin/sb", "../lib/node_modules/@s/cli/bin/sb.js", 36),
      ScannedFile("bar-cli", "/usr/local/lib/node_modules/qux/bin/bar-cli", 37)>>

\* Packages in the order DetectAll appends them; rg is reported by three managers.
PathInventory ==
    <<Package("bar", "1.0.0", NPM, TRUE), Package("mytool", "0.4", NPM, TRUE),
      Package("@s/cli", "2.0", NPM, TRUE), Package("rg", "0.1", NPM, TRUE),
      Package("qux", "1.0", Brew, TRUE), Package("rg", "14.0.0", Cargo, TRUE),
      Package("rg", "0.0.2", Gem, FALSE)>>

\* Scan results of at most MaxTools tools, in the order of PathToolChoices.
PathToolLists ==
    {Pick(PathToolChoices, S) :
        S \in {T \in SUBSET DOMAIN PathToolChoices : Cardinality(T) <= MaxTools}}

PathPackageLists ==
    {Pick(PathInventory, S) :
        S \in {T \in SUBSET DOMAIN PathInventory : Cardinality(T) <= MaxPackages}}

InitPath ==
    /\ paths = <<>>
    /\ fs = NoFileSystem
    /\ backends = NoRuns
    /\ probes = NoRuns
    /\ cmd = "export --with-packages"
    /\ phase = "detected"
    /\ names = <<>>
    /\ tools \in PathToolLists
    /\ scanned = tools
    /\ found = NotExist
    /\ info = ZeroTool
    /\ pkgs \in PathPackageLists
    /\ detectErr = ""
    /\ queried = <<>>
    /\ audit = NoAudit
    /\ catalog = BuildCatalog(<<>>, <<>>)

NextPath == LinkDetected \/ ExportCatalog

SpecPath == InitPath /\ [][NextPath]_vars

\* The path component after the first component equal to seg, "" without one.
After(path, seg) ==
    LET c == Split(path, "/")
        at == {i \in DOMAIN c : c[i] = seg}
        first == CHOOSE i \in at : \A j \in at : i <= j
    IN IF at = {} \/ first = Len(c) THEN "" ELSE c[first + 1]

\* The package name after a node_modules component: two components for a scope.
AfterNodeModules(path) ==
    LET n == After(path, "node_modules")
    IN IF HasPrefix(n, "@") /\ After(path, n) # "" THEN n \o "/" \o After(path, n) ELSE n

PathIsPython(path) == Contains(path, "site-packages") \/ Contains(path, ".pyenv")

\* The index of the last detected package named n, 0 without one.
LastNamed(n) ==
    LET at == {k \in DOMAIN pkgs : pkgs[k].Name = n}
    IN IF at = {} THEN 0 ELSE CHOOSE k \in at : \A m \in at : m <= k

\* What the four directory signatures name on one path, in the order they are
\* tried: node_modules, Cellar, opt, cargo bin; "" for a signature that is absent.
Signatures(path) ==
    <<AfterNodeModules(path),
      After(path, "Cellar"),
      IF After(path, "Cellar") # "" \/ HasPrefix(path, "/opt/homebrew/")
      THEN After(path, "opt") ELSE "",
      IF Contains(path, ".cargo/bin") /\ ~PathIsPython(path)
         /\ LastNamed(Base(path)) # 0 /\ pkgs[LastNamed(Base(path))].Manager = Cargo
      THEN Base(path) ELSE "">>

\* The first signature of the path that names a detected package, "" if none.
FirstKnown(path) ==
    LET sig == Signatures(path)
        hits == {k \in DOMAIN sig : sig[k] \in PackageNames}
    IN IF hits = {} THEN "" ELSE sig[CHOOSE k \in hits : \A m \in hits : k <= m]

TargetOf(t) == IF t.IsSymlink THEN t.SymlinkTo ELSE ""

\* C15: a tool no package is named after is linked to the first detected
\* package among the node_modules, Cellar, opt and cargo bin signatures of its
\* own path, else among those of its symlink target; only a tool that neither
\* path links is linked by a stripped form of its name.
C15_StrategyOrder ==
    phase = "linked" =>
        \A i \in DOMAIN tools :
            LET t == scanned[i]
                own == FirstKnown(t.Path)
                target == FirstKnown(TargetOf(t))
                forms == StrippedForms(t.Name)
            IN t.Name \notin PackageNames =>
                  /\ own # "" => LinkedTo(tools[i], own)
                  /\ (own = "" /\ target # "") => LinkedTo(tools[i], target)
                  /\ (own = "" /\ target = "" /\ tools[i].PackageName # "")
                        => \E k \in 1..3 : /\ forms[k] # t.Name
                                           /\ tools[i].PackageName = forms[k]

\* C15's case: one path naming three detected packages, a tool whose own path
\* and symlink target name different packages, and a tool whose path and
\* stripped name do.
C15_Witness ==
    /\ phase = "linked"
    /\ {"bar", "qux"} \subseteq PackageNames
    /\ \E i \in DOMAIN tools :
          \/ scanned[i].Name = "multi" /\ tools[i].PackageName = "bar"
          \/ scanned[i].Name = "bar-cli" /\ tools[i].PackageName = "qux"
    /\ \E j \in DOMAIN tools :
          /\ scanned[j].Name = "nmc"
          /\ FirstKnown(scanned[j].Path) = "qux"
          /\ FirstKnown(scanned[j].SymlinkTo) = "bar"
          /\ tools[j].PackageName = "qux"

\* The opt-style package roots, and the package a path under one belongs to.
OptRoots == {"/opt/homebrew/opt/", "/usr/local/opt/"}

OptPackage(path) ==
    IF \E r \in OptRoots : HasPrefix(path, r)
    THEN LET r == CHOOSE r \in OptRoots : HasPrefix(path, r)
         IN Split(SubSeq(path, Len(r) + 1, Len(path)), "/")[1]
    ELSE ""

\* C16: a tool no package is named after, whose path or symlink target lies
\* under /opt/homebrew/opt/<pkg>/ or /usr/local/opt/<pkg>/ with <pkg> a detected
\* package, is linked to <pkg>.
C16_OptPathLinks ==
    phase = "linked" =>
        \A i \in DOMAIN tools :
            \A p \in {scanned[i].Path, TargetOf(scanned[i])} :
                (/\ scanned[i].Name \notin PackageNames
                 /\ OptPackage(p) \in PackageNames)
                   => LinkedTo(tools[i], OptPackage(p))

\* C17: a tool no package is named after, whose path or symlink target has a
\* site-packages or .pyenv segment, is not linked by its paths: it is linked by
\* a stripped form of its name or not at all, whatever node_modules, Cellar, opt
\* or .cargo/bin segments the paths have.
C17_PythonPathsUnlinked ==
    phase = "linked" =>
        \A i \in DOMAIN tools :
            LET t == scanned[i]
                forms == StrippedForms(t.Name)
            IN (/\ t.Name \notin PackageNames
                /\ PathIsPython(t.Path) \/ PathIsPython(TargetOf(t)))
                  => \/ tools[i].PackageName = ""
                     \/ \E k \in 1..3 : /\ forms[k] # t.Name
                                        /\ tools[i].PackageName = forms[k]

FirstLine(out) ==
    IF Contains(out, "\n") THEN SubSeq(out, 1, Index(out, "\n") - 1) ELSE out

\* The first version flag whose run satisfies Taken, 0 if none does.
FirstFlag(Taken(_)) ==
    LET hits == {i \in DOMAIN versionFlags : Taken(probes[versionFlags[i]])}
    IN IF hits = {} THEN 0 ELSE CHOOSE i \in hits : \A j \in hits : i <= j

PrintsOutput(run) == ~run.hangs /\ run.out # ""

ExitsZeroWithVersionLine(run) ==
    /\ ~run.hangs /\ ~run.err
    /\ FirstLine(run.out) # "" /\ Len(FirstLine(run.out)) < MaxVersionLine

\* C18 as claimed: the version of a collected tool is the first line of the
\* output of the first of --version, -version, version, -v whose run printed
\* anything, whatever the exit status of that run.
C18_VersionAsClaimed ==
    (phase = "collected" /\ LstatPath(info.Path) # {}) =>
        LET i == FirstFlag(PrintsOutput)
        IN info.Version = IF i = 0 THEN "" ELSE FirstLine(probes[versionFlags[i]].out)

\* C18 as amended: the version is the first line, trimmed of surrounding white
\* space, of the output of the first flag whose run exited with status zero and
\* printed a non-empty first line shorter than 200 bytes; it is empty when no
\* flag has such a run.
C18_VersionProbe ==
    (phase = "collected" /\ LstatPath(info.Path) # {}) =>
        LET i == FirstFlag(ExitsZeroWithVersionLine)
        IN info.Version =
              IF i = 0 THEN "" ELSE TrimSpace(FirstLine(probes[versionFlags[i]].out))

\* C18's case: the first flags exit non-zero with output and a later one exits
\* zero with a version.
C18_Witness ==
    /\ phase = "collected"
    /\ LstatPath(info.Path) # {}
    /\ probes["--version"] = Rejects
    /\ probes["version"] = Exited(FALSE, " v0.9 \n")
    /\ info.Version = "v0.9"

\* The version field less a leading "v:" or "v".
LessVersionPrefix(field) ==
    IF HasPrefix(field, "v:") THEN TrimPrefix(field, "v:") ELSE TrimPrefix(field, "v")

\* The packages of a cargo listing when indented lines are continuation lines.
RECURSIVE PrimaryLinePackages(_)
PrimaryLinePackages(lines) ==
    IF lines = <<>> THEN <<>>
    ELSE LET line == Head(lines)
             parts == Fields(line)
         IN (IF ~HasPrefix(line, " ") /\ ~HasPrefix(line, "\t") /\ Len(parts) >= 2
             THEN <<Package(parts[1], LessVersionPrefix(parts[2]), Cargo, TRUE)>>
             ELSE <<>>)
            \o PrimaryLinePackages(Tail(lines))

\* C19: the cargo packages detected are those of the non-indented lines of the
\* listing with at least two fields, named by the first field and versioned by
\* the second less its leading v or v: prefix; an indented continuation line
\* yields no package, whatever number of fields it has.
C19_CargoParsing ==
    (phase = "detected" /\ ~backends["cargo"].err) =>
        PackagesOf(pkgs, Cargo) = PrimaryLinePackages(Split(backends["cargo"].out, "\n"))

\* The examined paths of the tool that lie in a .cargo/bin directory.
CargoBinPaths(t) == {p \in {t.Path, TargetOf(t)} : Contains(p, ".cargo/bin")}

\* The name is none the exact-name strategy, another signature of the tool's
\* paths or a stripped form of the tool's name could have given.
OnlyByCargoBin(t, n) ==
    /\ t.Name # n
    /\ \A p \in {t.Path, TargetOf(t)} : \A k \in 1..3 : Signatures(p)[k] # n
    /\ \A k \in 1..3 : StrippedForms(t.Name)[k] # n

\* C21: a tool linked through the .cargo/bin signature, to the package named as
\* the base filename of its path in that directory, has cargo as its package
\* manager; a package of that name from another manager is not linked this way.
C21_CargoBinIsCargo ==
    phase = "linked" =>
        \A i \in DOMAIN tools :
            \A p \in CargoBinPaths(scanned[i]) :
                (tools[i].PackageName = Base(p) /\ OnlyByCargoBin(scanned[i], Base(p)))
                   => /\ tools[i].PackageManager = Cargo
                      /\ pkgs[LastNamed(Base(p))].Manager = Cargo

\* C21's case: npm and cargo both report rg, and a tool whose symlink target is
\* .cargo/bin/rg is linked to cargo's.
C21_Witness ==
    /\ phase = "linked"
    /\ \E a, b \in DOMAIN pkgs :
          /\ pkgs[a].Name = "rg" /\ pkgs[a].Manager = NPM
          /\ pkgs[b].Name = "rg" /\ pkgs[b].Manager = Cargo
    /\ \E i \in DOMAIN tools :
          /\ scanned[i].Name = "ripgrep"
          /\ tools[i].PackageName = "rg"
          /\ tools[i].PackageVersion = "14.0.0"

(***************************************************************************)
(* SpecFilter: the scans of one directory of executables whose names the   *)
(* inclusion filter tells apart                                            *)
(***************************************************************************)

FilterNames ==
    {"git", "Jupyter-Server", "jupyter-server", "transmission-daemon", "ssh-agent",
     "api-server", "MyTest", "sampler", "httpd", "Kernel-tool"}

\* /a holds at most MaxTools executables; /b cannot be read.
FilterFileSystems ==
    {[d \in Dirs |-> IF d = "/a"
                     THEN Directory({RegularFile(n, 493, 10) : n \in N})
                     ELSE Unreadable] :
        N \in {M \in SUBSET FilterNames : Cardinality(M) <= MaxTools}}

InitFilter ==
    /\ paths \in {<<"/a">>, <<"/b", "/a">>}
    /\ fs \in FilterFileSystems
    /\ backends = NoRuns
    /\ probes = NoRuns
    /\ Fresh

NextFilter == RunScanAll \/ RunScanAllDetailed

SpecFilter == InitFilter /\ [][NextFilter]_vars

\* The names the scans returned.
ReturnedNames ==
    {names[i] : i \in DOMAIN names} \cup {scanned[i].Name : i \in DOMAIN scanned}

\* The parts of the filter that read the lowercased name alone.
PassesWordsDaemonsPrefixes(n) ==
    LET lower == ToLower(n)
    IN /\ \A w \in {"test", "demo", "bench", "example", "sample"} : ~Contains(lower, w)
       /\ \A i \in DOMAIN daemonExclusions : lower # daemonExclusions[i]
       /\ \A i \in DOMAIN appleInternalPrefixes : ~HasPrefix(lower, appleInternalPrefixes[i])

EndsInServerAgentDaemon(n) ==
    \E suffix \in {"server", "agent", "daemon"} : HasSuffix(ToLower(n), suffix)

AllowList == {allowed[i] : i \in DOMAIN allowed}

\* C22 as claimed: a name returned by ScanAll or ScanAllDetailed has none of
\* test, demo, bench, example, sample in its lowercased form, is no listed OS
\* daemon, starts with no listed prefix, and ends in server, agent or daemon
\* only if the exact name is on the allow-list.
C22_FilterAsClaimed ==
    \A n \in ReturnedNames :
        /\ PassesWordsDaemonsPrefixes(n)
        /\ EndsInServerAgentDaemon(n) => n \in AllowList

\* C22 as amended: the same, a name ending in server, agent or daemon being
\* returned only if its lowercased form is on the allow-list.
C22_InclusionFilter ==
    \A n \in ReturnedNames :
        /\ PassesWordsDaemonsPrefixes(n)
        /\ EndsInServerAgentDaemon(n) => ToLower(n) \in AllowList

\* C22's case: a directory with an allow-listed daemon and a filtered agent,
\* scanned.
C22_Witness ==
    /\ phase \in {"names", "scanned"}
    /\ {e.Name : e \in fs["/a"].entries} = {"transmission-daemon", "ssh-agent"}
    /\ ReturnedNames = {"transmission-daemon"}

\* The tools linked to a package named n, and the detected packages some tool
\* is linked to the name of, as indices.
LinkedToName(n) == {i \in DOMAIN tools : tools[i].PackageName = n}

PackagesWithTools == {k \in DOMAIN pkgs : LinkedToName(pkgs[k].Name) # {}}

\* The place of x among the elements of S, counted from the smallest.
Rank(S, x) == Cardinality({y \in S : y <= x})

\* C23: the summaries export writes are those of the detected packages that at
\* least one tool is linked to the name of, in package-list order, a package
\* without such a tool being left out; the binaries of a summary are the names
\* of those tools in tool order.
C23_SummariesOfLinkedPackages ==
    (phase = "exported" /\ DetectsPackages(cmd)) =>
        /\ Len(catalog.Packages) = Cardinality(PackagesWithTools)
        /\ \A k \in PackagesWithTools :
              LET summary == catalog.Packages[Rank(PackagesWithTools, k)]
                  linked == LinkedToName(pkgs[k].Name)
              IN /\ summary.Name = pkgs[k].Name
                 /\ summary.Version = pkgs[k].Version
                 /\ summary.Manager = pkgs[k].Manager
                 /\ Len(summary.Binaries) = Cardinality(linked)
                 /\ \A i \in linked : summary.Binaries[Rank(linked, i)] = tools[i].Name

\* C23's case: two tools linked to one package, another package linked to by
\* no tool, exported.
C23_Witness ==
    /\ phase = "exported"
    /\ Len(pkgs) >= 2
    /\ Cardinality(PackagesWithTools) = 1
    /\ Len(catalog.Packages) = 1
    /\ Len(catalog.Packages[1].Binaries) = 2
    /\ PackagesWithTools # {1}

\* The audit's entries for manager m, as indices.
ManagerEntries(m) ==
    {k \in DOMAIN audit.PackageManagers : audit.PackageManagers[k].Name = m}

\* C24: the audit has one entry for each manager with a detected package and
\* none for another; its PackageCount is the number of detected packages of the
\* manager, its ToolCount the number of tools whose package manager it is, and
\* no entry has a larger ToolCount than the entry before it.
C24_ManagerStatistics ==
    phase = "audited" =>
        LET stats == audit.PackageManagers
        IN /\ \A m \in {NPM, Pip, Brew, Cargo, Go, Gem} :
                 Cardinality(ManagerEntries(m))
                    = IF \E i \in DOMAIN pkgs : pkgs[i].Manager = m THEN 1 ELSE 0
           /\ \A k \in DOMAIN stats :
                 /\ stats[k].PackageCount
                       = Cardinality({i \in DOMAIN pkgs : pkgs[i].Manager = stats[k].Name})
                 /\ stats[k].ToolCount
                       = Cardinality({i \in DOMAIN tools :
                                         tools[i].PackageManager = stats[k].Name})
           /\ \A k \in DOMAIN stats : k > 1 => stats[k - 1].ToolCount >= stats[k].ToolCount

\* C24's case: two managers with two packages each, one with more tools than
\* the other.
C24_Witness ==
    /\ phase = "audited"
    /\ Len(audit.PackageManagers) = 2
    /\ audit.PackageManagers[1].PackageCount = 2
    /\ audit.PackageManagers[1].ToolCount = 3
    /\ audit.PackageManagers[2].ToolCount = 1
    /\ audit.PackageManagers[2].Name = NPM

C26_WholeTripleOrNone ==
    (phase = "linked" /\ \A i \in DOMAIN scanned : scanned[i].PackageName = "") =>
        \A i \in DOMAIN tools :
            \/ /\ tools[i].PackageName = ""
               /\ tools[i].PackageManager = ""
               /\ tools[i].PackageVersion = ""
            \/ \E k \in DOMAIN pkgs :
                  /\ tools[i].PackageName = pkgs[k].Name
                  /\ tools[i].PackageManager = pkgs[k].Manager
                  /\ tools[i].PackageVersion = pkgs[k].Version

\* C26's case: of two tools one is linked by its symlink target and the other
\* matches none of the detected packages.
C26_Witness ==
    /\ phase = "linked"
    /\ Len(pkgs) = 3
    /\ \E i, j \in DOMAIN tools :
          /\ scanned[i].Name = "sb" /\ scanned[i].PackageManager = ""
          /\ tools[i].PackageManager = NPM /\ tools[i].PackageVersion = "2.0"
          /\ scanned[j].Name = "optool"
          /\ tools[j].PackageName = "" /\ tools[j].PackageVersion = ""

\* C27: a linked tool has the manager and version of the last package of its
\* package name in the list DetectAll returned, also when an earlier package of
\* the list, from another manager, has that name.
C27_LastPackageOfNameWins ==
    phase \in {"linked", "enriched", "audited", "exported"} =>
        \A i \in DOMAIN tools :
            tools[i].PackageName # "" =>
                LET last == LastNamed(tools[i].PackageName)
                IN /\ last # 0
                   /\ tools[i].PackageManager = pkgs[last].Manager
                   /\ tools[i].PackageVersion = pkgs[last].Version

\* C27's case: npm and brew both report bar, and the exported tool bar has
\* brew's version.
C27_Witness ==
    /\ cmd = "export --with-packages" /\ phase = "exported"
    /\ \E a, b \in DOMAIN pkgs :
          /\ a < b
          /\ pkgs[a] = Package("bar", "1.0.0", NPM, TRUE)
          /\ pkgs[b] = Package("bar", "2.0", Brew, TRUE)
    /\ \E i \in DOMAIN catalog.Tools :
          /\ catalog.Tools[i].Name = "bar"
          /\ catalog.Tools[i].PackageManager = Brew
          /\ catalog.Tools[i].PackageVersion = "2.0"

\* C28: in the catalog export writes, every tool named in the binaries of a
\* package summary has the summary's manager as its package manager and the
\* summary's version as its package version.
C28_SummariesMatchLinks ==
    (phase = "exported" /\ DetectsPackages(cmd)) =>
        \A k \in DOMAIN catalog.Packages :
            LET summary == catalog.Packages[k]
            IN \A b \in DOMAIN summary.Binaries :
                  \A i \in DOMAIN catalog.Tools :
                      catalog.Tools[i].Name = summary.Binaries[b] =>
                          /\ catalog.Tools[i].PackageManager = summary.Manager
                          /\ catalog.Tools[i].PackageVersion = summary.Version

\* C29: in an audit result the managed and the unmanaged tools add up to
\* TotalTools, which is the number of tools audited, and the managed tools are
\* those with a package name.
C29_ToolCounts ==
    phase = "audited" =>
        /\ audit.TotalTools = Len(tools)
        /\ audit.PackageManagedTools + audit.UnmanagedTools = audit.TotalTools
        /\ audit.PackageManagedTools = Len(SelectSeq(tools, LAMBDA t : t.PackageName # ""))

\* C29's case: four installations of one name audited, one of them unlinked.
C29_Witness ==
    /\ phase = "audited"
    /\ Len(tools) = 4
    /\ \A i \in DOMAIN tools : tools[i].Name = "git"
    /\ audit.PackageManagedTools = 3
    /\ audit.UnmanagedTools = 1

\* C30: the metadata loop of export leaves the number and order of the tools
\* and, of every tool, all but Version and HelpText as they were: the name, the
\* path, the size, the symlink fields and the package fields LinkTools set.
C30_EnrichmentFrame ==
    [][(WithMeta(cmd) /\ phase \in {"scanned", "linked"}
        /\ phase' \in {"enriched", "probing"}) =>
          /\ Len(tools') = Len(tools)
          /\ \A i \in DOMAIN tools :
                [tools'[i] EXCEPT !.Version = tools[i].Version,
                                  !.HelpText = tools[i].HelpText] = tools[i]]_vars

\* C30's case: a linked symlink has been given a version by the loop.
C30_Witness ==
    /\ cmd = "export --with-packages --with-meta"
    /\ phase = "enriched"
    /\ \E i \in DOMAIN tools :
          /\ tools[i].PackageName # ""
          /\ tools[i].IsSymlink
          /\ tools[i].Version # ""
          /\ scanned[i].Version = ""

====
